---- MODULE Spec2Model ----
(***************************************************************************)
(* Model of cubit/moments.py: class weight_fn, the moment-to-recurrence    *)
(* engine.  A weight_fn instance holds a moment function and a cache of    *)
(* monic orthogonal polynomials keyed by degree.  Arithmetic is exact:     *)
(* numbers are rationals <<num, den>> in lowest terms with den > 0, and a  *)
(* finite sympy expression in x is the sequence of its coefficients,       *)
(* lowest power first, without trailing zeros (the zero polynomial is      *)
(* the empty sequence).                                                    *)
(***************************************************************************)
EXTENDS Integers, Sequences, FiniteSets, TLC

\* ------------------------------------------------------------------------
\* Bounds of the model
\* ------------------------------------------------------------------------
\* largest degree requested from orthopoly
MaxDeg == 3
\* largest degree of the polynomials handed directly to inner
MaxArgDeg == 1
\* the number of nested calls of orthopoly the interpreter allows before it
\* raises RecursionError (the recursion limit)
MaxFrames == 4
\* the count of evaluations of one squared norm stops at this number
MaxCount == 2
\* the number of sweeps tridiag_eigen allows for one eigenvalue (iterlim)
IterLim == 2

\* ------------------------------------------------------------------------
\* Exact rational arithmetic (sympy Integer / Rational)
\* ------------------------------------------------------------------------
Abs(a) == IF a < 0 THEN -a ELSE a

RECURSIVE GCD(_, _)
GCD(a, b) == IF b = 0 THEN a ELSE GCD(b, a % b)

\* n/d with d > 0 and g their greatest common divisor
Reduced(n, d, g) == <<n \div g, d \div g>>

RNorm(n, d) ==
  IF d < 0 THEN Reduced(-n, -d, GCD(Abs(n), -d))
  ELSE Reduced(n, d, GCD(Abs(n), d))

RZero == <<0, 1>>
ROne == <<1, 1>>
RInt(k) == <<k, 1>>

RNeg(a) == <<-a[1], a[2]>>

\* a + b with g the greatest common divisor of the denominators
AddOver(a, b, g) ==
  RNorm(a[1] * (b[2] \div g) + b[1] * (a[2] \div g), (a[2] \div g) * b[2])

RAdd(a, b) == AddOver(a, b, GCD(a[2], b[2]))

RSub(a, b) == RAdd(a, RNeg(b))

\* a * b, cancelling g1 = gcd(a[1], b[2]) and g2 = gcd(b[1], a[2]) first
MulOver(a, b, g1, g2) ==
  <<(a[1] \div g1) * (b[1] \div g2), (a[2] \div g2) * (b[2] \div g1)>>

RMul(a, b) == MulOver(a, b, GCD(Abs(a[1]), b[2]), GCD(Abs(b[1]), a[2]))

\* the reciprocal of a non-zero rational
RInv(a) == IF a[1] < 0 THEN <<-a[2], -a[1]>> ELSE <<a[2], a[1]>>

RECURSIVE Fact(_)
Fact(k) == IF k = 0 THEN 1 ELSE k * Fact(k - 1)

RECURSIVE Pow2(_)
Pow2(k) == IF k = 0 THEN 1 ELSE 2 * Pow2(k - 1)

\* ------------------------------------------------------------------------
\* Polynomials in x: coefficient sequences, lowest power first
\* ------------------------------------------------------------------------
\* the sequence f as an explicit tuple
Tuple(f) == SubSeq(f, 1, Len(f))

Coef(p, i) == IF i >= 1 /\ i <= Len(p) THEN p[i] ELSE RZero

RECURSIVE Trim(_)
Trim(p) ==
  IF Len(p) = 0 THEN p
  ELSE IF p[Len(p)] = RZero THEN Trim(SubSeq(p, 1, Len(p) - 1))
  ELSE p

Max(a, b) == IF a >= b THEN a ELSE b

PAdd(p, q) ==
  Trim(Tuple([i \in 1..Max(Len(p), Len(q)) |-> RAdd(Coef(p, i), Coef(q, i))]))

PScale(c, p) == Trim(Tuple([i \in 1..Len(p) |-> RMul(c, p[i])]))

PSub(p, q) == PAdd(p, PScale(RInt(-1), q))

Min(a, b) == IF a <= b THEN a ELSE b

\* sum over j = lo..hi of p[j] * q[k + 1 - j]: the k-th coefficient of p*q
RECURSIVE ConvSum(_, _, _, _, _)
ConvSum(p, q, k, j, hi) ==
  IF j > hi THEN RZero
  ELSE RAdd(RMul(p[j], q[k + 1 - j]), ConvSum(p, q, k, j + 1, hi))

PMul(p, q) ==
  IF Len(p) = 0 \/ Len(q) = 0 THEN <<>>
  ELSE Trim(Tuple([k \in 1..(Len(p) + Len(q) - 1) |->
                     ConvSum(p, q, k, Max(1, k + 1 - Len(q)), Min(Len(p), k))]))

\* the symbol x and the constants
PX == <<RZero, ROne>>
PConst(c) == Trim(<<c>>)
POne == <<ROne>>

Reverse(s) == Tuple([i \in 1..Len(s) |-> s[Len(s) + 1 - i]])

\* ------------------------------------------------------------------------
\* sympy values
\* ------------------------------------------------------------------------
\* An expression is a finite polynomial in x ("poly") or an expression that
\* contains zoo or nan ("nonfinite"); "none" marks a key absent from a dict.
None == [kind |-> "none", c |-> <<>>]
Poly(c) == [kind |-> "poly", c |-> c]
NonFinite == [kind |-> "nonfinite", c |-> <<>>]

\* A scalar is a rational ("num"), zoo or nan ("nonfinite"), or the
\* outcome "raise" of an evaluation that raised instead of returning.
Num(v) == [kind |-> "num", v |-> v]
NonFiniteNum == [kind |-> "nonfinite", v |-> RZero]
Raise == [kind |-> "raise", v |-> RZero]

\* a / b on sympy numbers: division by zero yields zoo or nan, never raises
SymDiv(a, b) ==
  IF a.kind = "raise" \/ b.kind = "raise" THEN Raise
  ELSE IF a.kind = "nonfinite" \/ b.kind = "nonfinite" THEN NonFiniteNum
  ELSE IF b.v = RZero THEN NonFiniteNum
  ELSE Num(RMul(a.v, RInv(b.v)))

\* Poly.all_coeffs(): all coefficients, highest power first; [0] for zero
all_coeffs(c) == IF Len(c) = 0 THEN <<RZero>> ELSE Reverse(c)

\* ------------------------------------------------------------------------
\* Moment functions handed to weight_fn(momfunc)
\* ------------------------------------------------------------------------
\*   legendre01  mu(k) = 1/(k+1)   weight 1 on [0, 1]
\*   laguerre    mu(k) = k!        weight exp(-x) on [0, oo)
\*   point       mu(k) = 1         unit mass at 1: the norm of p_1 is 0
\*   twopoint    mu(k) = 1 + 2^k   unit masses at 1 and 2: the norm of p_2 is 0
\*   zeromass    mu(k) = k         zero total mass: mu(0) = 0
\*   undefined   mu raises at every index
\*   gap2        mu(k) = k! for k # 2, mu raises at index 2
\*   cut2, cut4, cut6, cut8   mu(k) = 1/(k+1) for k below 2, 4, 6, 8, mu
\*               raises at every index from there on
CutNames == {"cut2", "cut4", "cut6", "cut8"}

\* the first index at which the moment function raises
CutOf(name) ==
  CASE name = "cut2" -> 2
    [] name = "cut4" -> 4
    [] name = "cut6" -> 6
    [] name = "cut8" -> 8

MomentNames ==
  {"legendre01", "laguerre", "point", "twopoint", "zeromass", "undefined", "gap2"}
    \cup CutNames

MomentValue(name, k) ==
  CASE name = "legendre01" -> <<1, k + 1>>
    [] name = "laguerre"   -> <<Fact(k), 1>>
    [] name = "point"      -> ROne
    [] name = "twopoint"   -> <<1 + Pow2(k), 1>>
    [] name = "zeromass"   -> <<k, 1>>
    [] name = "undefined"  -> RZero
    [] name = "gap2"       -> <<Fact(k), 1>>
    [] name \in CutNames   -> <<1, k + 1>>

\* momfunc(k) raises instead of returning a value
RaisesAt(name, k) ==
  CASE name = "undefined" -> TRUE
    [] name = "gap2"      -> k = 2
    [] name \in CutNames  -> k >= CutOf(name)
    [] OTHER              -> FALSE

\* numbers: "sympy" when momfunc returns sympy numbers, "python" when it
\* returns Python numbers (int, float, fractions.Fraction)
MomentFns ==
  {f \in [name : MomentNames, numbers : {"sympy", "python"}] :
     f.numbers = "python" => f.name \in {"laguerre", "zeromass"}}

moment(w, k) == MomentValue(w.name, k)

\* self.moment(k) raises
Undefined(w, k) == RaisesAt(w.name, k)

\* self.moment(1)/self.moment(0): an error of momfunc propagates; Python
\* numbers raise ZeroDivisionError on a zero divisor, sympy numbers yield
\* zoo or nan
MomentQuot(w, a, b) ==
  IF Undefined(w, a) \/ Undefined(w, b) THEN Raise
  ELSE IF moment(w, b) = RZero
  THEN IF w.numbers = "python" THEN Raise ELSE NonFiniteNum
  ELSE Num(RMul(moment(w, a), RInv(moment(w, b))))

\* the indices at which self.moment(a)/self.moment(b) evaluates momfunc:
\* the dividend first, the divisor when the dividend returned
QuotIndices(w, a, b) == IF Undefined(w, a) THEN {a} ELSE {a, b}

\* ------------------------------------------------------------------------
\* State
\* ------------------------------------------------------------------------
\* obj:   the weight_fn instances: obj[i].moment is self.moment and
\*        obj[i].cache is the reference self._cache to a dict of the heap
\* heap:  the dict objects: heap[r][n] is the entry of key n, None if absent
\* last:  the most recent call and its outcome
\* polyRaises: whether sym.Poly of an expression that contains zoo or nan
\*        raises PolynomialError in the installed sympy (TRUE) or builds
\*        a polynomial with non-finite coefficients (FALSE)
\* sqnorms: sqnorms[i][k] is the number of times orthopoly of instance i has
\*        called sqnorm on its polynomial of degree k, counted up to MaxCount
\* gw:    the most recent call of a Gauss-rule function of golub_welsch.py
\*        or mpmath_golub_welsch.py and its outcome
\* iv:    the most recent call of a composite rule of interval.py and its
\*        outcome
\* run:   the frames of the call of orthopoly that is running, innermost
\*        last, when the call is followed frame by frame
VARIABLES obj, heap, last, polyRaises, sqnorms, gw, iv, run

vars == <<obj, heap, last, polyRaises, sqnorms, gw, iv, run>>

Instances == {1, 2}
Degrees == 0..MaxDeg
\* the negative degrees a caller requests
NegDegrees == {-2, -1}
\* the degrees of the Gram-Schmidt comparison
GSDegrees == 0..5
Keys == Degrees \cup GSDegrees
EmptyDict == [n \in Keys |-> None]

\* ------------------------------------------------------------------------
\* class weight_fn
\* ------------------------------------------------------------------------
\* one dict shared by all instances (a class-level or default-argument dict)
NewDictShared(i) == 1

\* weight_fn.__init__: self._cache = dict() is a new dict for each instance
NewDict(i) == i

\* weight_fn(momfunc)
New(i, momfunc) == [moment |-> momfunc, cache |-> NewDict(i)]

\* the dict self._cache of instance i
CacheOf(i) == heap[obj[i].cache]

\* enumerate(prod.all_coeffs()): reversed forgotten
EnumeratedUnreversed(c) == all_coeffs(c)

\* enumerate(reversed(prod.all_coeffs())): the pairs (i, coeff) as the
\* sequence of coeff indexed by i + 1
Enumerated(c) == Reverse(all_coeffs(c))

\* sum(coeff*self.moment(i) for i, coeff in iter): left fold from 0
RECURSIVE SumTerms(_, _, _, _)
SumTerms(w, it, i, acc) ==
  IF i > Len(it) THEN acc
  ELSE SumTerms(w, it, i + 1, RAdd(acc, RMul(it[i], moment(w, i - 1))))

\* sum(...) with the terms of zero coefficient skipped: momfunc is not
\* evaluated where the coefficient is zero
SumNonZero(w, it) ==
  IF \E i \in 1..Len(it) : it[i] # RZero /\ Undefined(w, i - 1) THEN Raise
  ELSE Num(SumTerms(w, it, 1, RZero))

\* sum(coeff*self.moment(i) for i, coeff in iter): self.moment(i) is
\* evaluated for every pair of iter and an error of momfunc ends the sum
Sum(w, it) ==
  IF \E i \in 1..Len(it) : Undefined(w, i - 1) THEN Raise
  ELSE Num(SumTerms(w, it, 1, RZero))

\* weight_fn.inner; the polynomial sympy builds from a product that
\* contains zoo or nan has a coefficient of x^0, so momfunc(0) is evaluated
inner(w, p1, p2) ==
  IF p1.kind = "nonfinite" \/ p2.kind = "nonfinite"
  THEN IF polyRaises \/ Undefined(w, 0) THEN Raise ELSE NonFiniteNum
  ELSE Sum(w, Enumerated(PMul(p1.c, p2.c)))

\* len(prod.all_coeffs()) for prod = Poly(p1*p2, x): one coefficient for
\* each power up to the degree of the product, [0] for the zero polynomial
CoeffCount(a, b) == IF Len(a) = 0 \/ Len(b) = 0 THEN 1 ELSE Len(a) + Len(b) - 1

\* the indices at which inner(p1, p2) evaluates momfunc: those of iter in
\* ascending order up to the first one at which momfunc raises
InnerIndices(w, p1, p2) ==
  IF p1.kind = "nonfinite" \/ p2.kind = "nonfinite"
  THEN IF polyRaises THEN {} ELSE {0}
  ELSE {i \in 0..(CoeffCount(p1.c, p2.c) - 1) : \A j \in 0..(i - 1) : ~Undefined(w, j)}

\* weight_fn.sqnorm
sqnorm(w, p) == inner(w, p, p)

\* x**2*p for a sympy expression p
TimesXSquared(p) ==
  IF p.kind = "poly" THEN Poly(PMul(PX, PMul(PX, p.c))) ELSE p

\* x*p for a sympy expression p
TimesX(p) == IF p.kind = "poly" THEN Poly(PMul(PX, p.c)) ELSE p

\* alpha = oneprev_sqnorm/product: the quotient inverted
alphaInverted(product, oneprev_sqnorm) == SymDiv(oneprev_sqnorm, product)

\* alpha = product/oneprev_sqnorm
alphaOf(product, oneprev_sqnorm) == SymDiv(product, oneprev_sqnorm)

\* beta = twoprev_sqnorm/oneprev_sqnorm: the quotient inverted
betaInverted(oneprev_sqnorm, twoprev_sqnorm) == SymDiv(twoprev_sqnorm, oneprev_sqnorm)

\* beta = oneprev_sqnorm/twoprev_sqnorm
betaOf(oneprev_sqnorm, twoprev_sqnorm) == SymDiv(oneprev_sqnorm, twoprev_sqnorm)

\* sym.expand((x - alpha)*oneprev + beta*twoprev): the sign of beta flipped
ExpandedPolyPlus(alpha, beta, oneprev, twoprev) ==
  IF alpha.kind # "num" \/ beta.kind # "num"
     \/ oneprev.kind # "poly" \/ twoprev.kind # "poly"
  THEN NonFinite
  ELSE Poly(PAdd(PMul(PSub(PX, PConst(alpha.v)), oneprev.c),
                 PScale(beta.v, twoprev.c)))

\* sym.expand((x - alpha)*oneprev - beta*twoprev)
ExpandedPoly(alpha, beta, oneprev, twoprev) ==
  IF alpha.kind # "num" \/ beta.kind # "num"
     \/ oneprev.kind # "poly" \/ twoprev.kind # "poly"
  THEN NonFinite
  ELSE Poly(PSub(PMul(PSub(PX, PConst(alpha.v)), oneprev.c),
                 PScale(beta.v, twoprev.c)))

\* self._cache = {n: v}: the store replaces the dict
CacheStoreOnly(d, n, v) == [k \in DOMAIN d |-> IF k = n THEN v ELSE None]

\* self._cache[n] = v
CacheStore(d, n, v) == [d EXCEPT ![n] = v]

\* what a call did besides its outcome: the degrees n with which orthopoly
\* was entered, the indices at which momfunc was evaluated, the degrees
\* of the polynomials handed to sqnorm, in the order of the calls, and the
\* keys n of the assignments self._cache[n] = ..
NoTrace == [entered |-> {}, moments |-> {}, norms |-> <<>>, stored |-> {}]

Merge(a, b) ==
  [entered |-> a.entered \cup b.entered, moments |-> a.moments \cup b.moments,
   norms |-> a.norms \o b.norms, stored |-> a.stored \cup b.stored]

\* the outcome of a call: the dict afterwards, whether it raised, the value
Returned(d, v) == [dict |-> d, raised |-> FALSE, val |-> v, tr |-> NoTrace]
Raised(d) == [dict |-> d, raised |-> TRUE, val |-> None, tr |-> NoTrace]

\* the outcome r of a step that ran after the steps traced by t
Traced(t, r) == [r EXCEPT !.tr = Merge(t, @)]

\* the outcome r of a call self.orthopoly(n)
Entered(n, r) == [r EXCEPT !.tr.entered = @ \cup {n}]

\* try: return self._cache[n - 1]: the key off by one
CacheHitPrev(d, n) == Returned(d, d[IF n > 0 THEN n - 1 ELSE n])

\* try: return self._cache[n]
CacheHit(d, n) == Returned(d, d[n])

\* self._cache[n] = v followed by the final return self._cache[n]
Lookup(d, n) == Returned(d, d[n])

\* self._cache[n] = -v while the call returns v
StoreAndReturnNegated(d, n, v) ==
  [Returned(CacheStore(d, n, IF v.kind = "poly"
                             THEN Poly(PScale(RInt(-1), v.c)) ELSE v), v)
     EXCEPT !.tr.stored = {n}]

StoreAndReturn(d, n, v) ==
  [Lookup(CacheStore(d, n, v), n) EXCEPT !.tr.stored = {n}]

\* x - self.moment(1)/self.moment(0)
XMinus(q) == IF q.kind = "num" THEN Poly(PSub(PX, PConst(q.v))) ELSE NonFinite

FirstPoly(w) == XMinus(MomentQuot(w, 1, 0))

\* the else branch with the key n entered into the dict before the inner
\* products are computed (a marker against re-entry)
StepWithMarker(d, n, twoprev, oneprev, twoprev_sqnorm, oneprev_sqnorm, product) ==
  IF twoprev_sqnorm.kind = "raise" \/ oneprev_sqnorm.kind = "raise"
     \/ product.kind = "raise"
  THEN Raised(CacheStore(d, n, oneprev))
  ELSE StoreAndReturn(d, n,
         ExpandedPoly(alphaOf(product, oneprev_sqnorm),
                      betaOf(oneprev_sqnorm, twoprev_sqnorm), oneprev, twoprev))

\* the else branch once twoprev and oneprev are known; an inner product
\* that raises ends the call before anything is stored
StepWith(d, n, twoprev, oneprev, twoprev_sqnorm, oneprev_sqnorm, product) ==
  IF twoprev_sqnorm.kind = "raise" \/ oneprev_sqnorm.kind = "raise"
     \/ product.kind = "raise"
  THEN Raised(d)
  ELSE StoreAndReturn(d, n,
         ExpandedPoly(alphaOf(product, oneprev_sqnorm),
                      betaOf(oneprev_sqnorm, twoprev_sqnorm), oneprev, twoprev))

\* what the else branch does: sqnorm(twoprev), then sqnorm(oneprev), then
\* inner(oneprev, x*oneprev), each only when the one before returned
StepTrace(w, n, twoprev, oneprev, twoprev_sqnorm, oneprev_sqnorm) ==
  [entered |-> {}, stored |-> {},
   moments |->
     InnerIndices(w, twoprev, twoprev)
       \cup (IF twoprev_sqnorm.kind = "raise" THEN {}
             ELSE InnerIndices(w, oneprev, oneprev)
                    \cup (IF oneprev_sqnorm.kind = "raise" THEN {}
                          ELSE InnerIndices(w, oneprev, TimesX(oneprev)))),
   norms |-> IF twoprev_sqnorm.kind = "raise" THEN <<n - 2>> ELSE <<n - 2, n - 1>>]

StepTraced(w, d, n, twoprev, oneprev, twoprev_sqnorm, oneprev_sqnorm, product) ==
  Traced(StepTrace(w, n, twoprev, oneprev, twoprev_sqnorm, oneprev_sqnorm),
         StepWith(d, n, twoprev, oneprev, twoprev_sqnorm, oneprev_sqnorm, product))

RecurrenceStep(w, d, n, twoprev, oneprev) ==
  StepTraced(w, d, n, twoprev, oneprev, sqnorm(w, twoprev), sqnorm(w, oneprev),
             inner(w, oneprev, TimesX(oneprev)))

\* the branch n == 0 with the constant normalized by the total mass:
\* self._cache[n] = self.moment(0)/self.moment(0)
ZerothNormalized(w, d) ==
  Traced([NoTrace EXCEPT !.moments = QuotIndices(w, 0, 0)],
         IF MomentQuot(w, 0, 0).kind = "raise" THEN Raised(d)
         ELSE StoreAndReturn(d, 0, IF MomentQuot(w, 0, 0).kind = "num"
                                   THEN Poly(POne) ELSE NonFinite))

\* the branch n == 0: self._cache[n] = sym.Integer(1)
Zeroth(w, d) == StoreAndReturn(d, 0, Poly(POne))

\* the branch n == 1: self._cache[n] = x - self.moment(1)/self.moment(0)
First(w, d) ==
  Traced([NoTrace EXCEPT !.moments = QuotIndices(w, 1, 0)],
         IF MomentQuot(w, 1, 0).kind = "raise" THEN Raised(d)
         ELSE StoreAndReturn(d, 1, FirstPoly(w)))

\* a negative n is no key of the dict and neither 0 nor 1: every frame
\* calls self.orthopoly(n - 2) first, and the chain n, n - 2, n - 4, ..
\* ends only when the interpreter refuses a further frame
RECURSIVE Descend(_, _, _)
Descend(d, n, frames) ==
  IF frames > MaxFrames THEN Raised(d)
  ELSE Entered(n, Descend(d, n - 2, frames + 1))

\* weight_fn.orthopoly on the dict d of an instance with moment function w
\* r2 is the outcome of self.orthopoly(n - 2), r1 of self.orthopoly(n - 1)
RECURSIVE orthopoly(_, _, _)
RECURSIVE AfterTwoprev(_, _, _)
RECURSIVE AfterOneprev(_, _, _, _)

AfterOneprev(w, n, r2, r1) ==
  IF r1.raised THEN Traced(r2.tr, r1)
  ELSE Traced(Merge(r2.tr, r1.tr), RecurrenceStep(w, r1.dict, n, r2.val, r1.val))

AfterTwoprev(w, n, r2) ==
  IF r2.raised THEN r2
  ELSE AfterOneprev(w, n, r2, orthopoly(w, r2.dict, n - 1))

orthopoly(w, d, n) ==
  IF n < 0 THEN Descend(d, n, 1)
  ELSE Entered(n, IF d[n] # None THEN CacheHit(d, n)
                  ELSE IF n = 0 THEN Zeroth(w, d)
                  ELSE IF n = 1 THEN First(w, d)
                  ELSE AfterTwoprev(w, n, orthopoly(w, d, n - 2)))

\* ------------------------------------------------------------------------
\* Calls
\* ------------------------------------------------------------------------
\* op: "none" before any call, "pending" for a call of inner or sqnorm that
\* has been issued, else the method that returned or raised.  hit: the
\* requested degree was in the dict when orthopoly was entered.
NoCall == [op |-> "none", inst |-> 0, n |-> 0, args |-> <<>>, hit |-> FALSE,
           raised |-> FALSE, val |-> None, num |-> Raise, tr |-> NoTrace]

\* fn: "none" until a Gauss-rule function has been called.  error: the
\* exception the call raised, "" when it returned.  kind: "pair" when the
\* call returned (nodes, weights), "list" when it returned the nodes only.
\* d, e: the Jacobi matrix handed to tridiag_eigen.  raw: d and z when the
\* iteration of tridiag_eigen had converged, before its sort.  l: the
\* number of off-diagonal entries the iteration has deflated.  j: the
\* number of sweeps it has made for the entry it works on.
NoRule ==
  [fn |-> "none", n |-> 0, alpha |-> RZero, beta |-> RZero, error |-> "",
   kind |-> "none", d |-> <<>>, e |-> <<>>, raw |-> <<>>, nodes |-> <<>>,
   weights |-> <<>>, l |-> 0, j |-> 0]

\* iv: the call of a composite rule of interval.py and what it returned.
\* fn: the function.  m: the number of subintervals.  n: the number of
\* Gauss points on each subinterval (composite_gauss only).  kind: "called"
\* while the call is pending, "pair" when it returned (nodes, weights).
\* Each entry of weights records how often the code assigned the position.
NoComposite ==
  [fn |-> "none", m |-> 0, n |-> 0, lower |-> RZero, upper |-> RZero,
   kind |-> "none", nodes |-> <<>>, weights |-> <<>>]

\* run: stack holds a frame [n, pc, twoprev, oneprev] for every call of
\* orthopoly that has not ended; pc is "try" before the lookup in the dict,
\* "twoprev" and "oneprev" while the frame waits for self.orthopoly(n - 2)
\* and self.orthopoly(n - 1), "step" before line 29.  steps[k] counts the
\* runs of lines 29-35 for degree k, up to MaxCount; failed: a call of the
\* instance has raised.
NoRun == [stack |-> <<>>, steps |-> [k \in Keys |-> 0], failed |-> FALSE]

NoCounts == [i \in Instances |-> [k \in Keys |-> 0]]

\* the counts c after the calls of sqnorm listed in norms
RECURSIVE Counted(_, _)
Counted(c, norms) ==
  IF Len(norms) = 0 THEN c
  ELSE Counted([c EXCEPT ![Head(norms)] = IF @ < MaxCount THEN @ + 1 ELSE @],
               Tail(norms))

\* the second instance is built from the same moment function as the first
\* or from the next one of this list
MomentSeq ==
  << [name |-> "legendre01", numbers |-> "sympy"],
     [name |-> "laguerre", numbers |-> "python"],
     [name |-> "point", numbers |-> "sympy"],
     [name |-> "zeromass", numbers |-> "python"],
     [name |-> "twopoint", numbers |-> "sympy"],
     [name |-> "laguerre", numbers |-> "sympy"],
     [name |-> "zeromass", numbers |-> "sympy"] >>

MomentPairs ==
  {<<MomentSeq[k], MomentSeq[k]>> : k \in 1..Len(MomentSeq)}
  \cup {<<MomentSeq[k], MomentSeq[(k % Len(MomentSeq)) + 1]>> : k \in 1..Len(MomentSeq)}

Init ==
  /\ \E m \in MomentPairs : obj = [i \in Instances |-> New(i, m[i])]
  /\ heap = [r \in Instances |-> EmptyDict]
  /\ last = NoCall
  /\ polyRaises \in BOOLEAN
  /\ sqnorms = NoCounts
  /\ gw = NoRule
  /\ iv = NoComposite
  /\ run = NoRun

\* a caller invokes orthopoly(n) on instance i
OrthopolyEnds(i, n, r) ==
  /\ heap' = [heap EXCEPT ![obj[i].cache] = r.dict]
  /\ last' = [op |-> "orthopoly", inst |-> i, n |-> n, args |-> <<>>,
              hit |-> n \in Keys /\ CacheOf(i)[n] # None,
              raised |-> r.raised, val |-> r.val, num |-> Raise, tr |-> r.tr]
  /\ sqnorms' = [sqnorms EXCEPT ![i] = Counted(@, r.tr.norms)]
  /\ UNCHANGED <<obj, polyRaises, gw, iv, run>>

Orthopoly(i, n) == OrthopolyEnds(i, n, orthopoly(obj[i].moment, CacheOf(i), n))

Next == \E i \in Instances, n \in Degrees : Orthopoly(i, n)

Spec == Init /\ [][Next]_vars

\* ------------------------------------------------------------------------
\* The Gram-Schmidt comparison: the two weight functions up to degree 5
\* ------------------------------------------------------------------------
InitGS ==
  /\ obj = [i \in Instances |->
             New(i, [name |-> IF i = 1 THEN "legendre01" ELSE "laguerre",
                     numbers |-> "sympy"])]
  /\ heap = [r \in Instances |-> EmptyDict]
  /\ last = NoCall
  /\ polyRaises \in BOOLEAN
  /\ sqnorms = NoCounts
  /\ gw = NoRule
  /\ iv = NoComposite
  /\ run = NoRun

NextGS == \E i \in Instances, n \in GSDegrees : Orthopoly(i, n)

SpecGS == InitGS /\ [][NextGS]_vars

\* ------------------------------------------------------------------------
\* inner and sqnorm called directly
\* ------------------------------------------------------------------------
\* the expressions handed to inner and sqnorm: coefficients -1, 0, 1/2
ArgCoefs == {RInt(-1), RZero, <<1, 2>>}
ArgPolys == {Poly(Trim(c)) : c \in [1..(MaxArgDeg + 1) -> ArgCoefs]} \cup {NonFinite}

Pending(i, args) == [NoCall EXCEPT !.op = "pending", !.inst = i, !.args = args]

InitInner ==
  /\ \E m \in MomentPairs :
       m[1] # m[2] /\ obj = [i \in Instances |-> New(i, m[i])]
  /\ heap = [r \in Instances |-> EmptyDict]
  /\ \E i \in Instances, p1 \in ArgPolys :
       \/ last = Pending(i, <<p1>>)
       \/ \E p2 \in ArgPolys : last = Pending(i, <<p1, p2>>)
  /\ polyRaises \in BOOLEAN
  /\ sqnorms = NoCounts
  /\ gw = NoRule
  /\ iv = NoComposite
  /\ run = NoRun

\* the pending call inner(p1, p2) on instance i runs
Ends(op, r) ==
  /\ last' = [last EXCEPT !.op = op, !.raised = r.kind = "raise", !.num = r]
  /\ UNCHANGED <<obj, heap, polyRaises, sqnorms, gw, iv, run>>

Inner(i, p1, p2) ==
  /\ last = Pending(i, <<p1, p2>>)
  /\ Ends("inner", inner(obj[i].moment, p1, p2))

\* the pending call sqnorm(p) on instance i runs
Sqnorm(i, p) ==
  /\ last = Pending(i, <<p>>)
  /\ Ends("sqnorm", sqnorm(obj[i].moment, p))

NextInner ==
  \/ \E i \in Instances, p1 \in ArgPolys, p2 \in ArgPolys : Inner(i, p1, p2)
  \/ \E i \in Instances, p \in ArgPolys : Sqnorm(i, p)

SpecInner == InitInner /\ [][NextInner]_vars

\* ------------------------------------------------------------------------
\* Calls that fail: moment functions that raise, zero total mass, zero
\* norms, negative degrees
\* ------------------------------------------------------------------------
ErrSeq ==
  << [name |-> "undefined", numbers |-> "sympy"],
     [name |-> "laguerre", numbers |-> "python"],
     [name |-> "gap2", numbers |-> "sympy"],
     [name |-> "zeromass", numbers |-> "python"],
     [name |-> "point", numbers |-> "sympy"],
     [name |-> "zeromass", numbers |-> "sympy"] >>

ErrPairs == {<<ErrSeq[k], ErrSeq[(k % Len(ErrSeq)) + 1]>> : k \in 1..Len(ErrSeq)}

\* the expressions handed to inner and sqnorm: 1, x, x - 1, x^2
ErrArgs ==
  {Poly(POne), Poly(PX), Poly(<<RInt(-1), ROne>>), Poly(<<RZero, RZero, ROne>>)}

\* the caller starts with orthopoly or with one call of inner or sqnorm
InitErr ==
  /\ \E m \in ErrPairs : obj = [i \in Instances |-> New(i, m[i])]
  /\ heap = [r \in Instances |-> EmptyDict]
  /\ \/ last = NoCall
     \/ \E i \in Instances, p1 \in ErrArgs :
          \/ last = Pending(i, <<p1>>)
          \/ \E p2 \in ErrArgs : last = Pending(i, <<p1, p2>>)
  /\ polyRaises \in BOOLEAN
  /\ sqnorms = NoCounts
  /\ gw = NoRule
  /\ iv = NoComposite
  /\ run = NoRun

NextErr ==
  \/ /\ last.op # "pending"
     /\ \E i \in Instances, n \in NegDegrees \cup Degrees : Orthopoly(i, n)
  \/ \E i \in Instances, p1 \in ErrArgs, p2 \in ErrArgs : Inner(i, p1, p2)
  \/ \E i \in Instances, p \in ErrArgs : Sqnorm(i, p)

SpecErr == InitErr /\ [][NextErr]_vars

\* ------------------------------------------------------------------------
\* Calls with moment functions that are defined up to an index only
\* ------------------------------------------------------------------------
FootSeq ==
  << [name |-> "cut2", numbers |-> "sympy"],
     [name |-> "legendre01", numbers |-> "sympy"],
     [name |-> "cut4", numbers |-> "sympy"],
     [name |-> "zeromass", numbers |-> "sympy"],
     [name |-> "cut6", numbers |-> "sympy"],
     [name |-> "gap2", numbers |-> "sympy"],
     [name |-> "cut8", numbers |-> "sympy"],
     [name |-> "point", numbers |-> "sympy"] >>

FootPairs == {<<FootSeq[k], FootSeq[(k % Len(FootSeq)) + 1]>> : k \in 1..Len(FootSeq)}

InitFoot ==
  /\ \E m \in FootPairs : obj = [i \in Instances |-> New(i, m[i])]
  /\ heap = [r \in Instances |-> EmptyDict]
  /\ last = NoCall
  /\ polyRaises \in BOOLEAN
  /\ sqnorms = NoCounts
  /\ gw = NoRule
  /\ iv = NoComposite
  /\ run = NoRun

SpecFoot == InitFoot /\ [][Next]_vars

\* ------------------------------------------------------------------------
\* Properties
\* ------------------------------------------------------------------------
Cached(i, n) == CacheOf(i)[n]
IsPoly(e) == e.kind = "poly"
W(i) == obj[i].moment

\* sum of f[lo], .., f[hi]
RECURSIVE RSum(_, _, _)
RSum(f, lo, hi) == IF lo > hi THEN RZero ELSE RAdd(f[lo], RSum(f, lo + 1, hi))

\* sum over all pairs of terms a_j x^j of a and b_k x^k of b of a_j*b_k*mu(j+k)
Contract(w, a, b) ==
  RSum([j \in 1..Len(a) |->
          RSum([k \in 1..Len(b) |-> RMul(RMul(a[j], b[k]), moment(w, (j - 1) + (k - 1)))],
               1, Len(b))],
       1, Len(a))

\* the squared norms of the cached polynomials of degree 0..k are not zero
NormsNonZero(i, k) ==
  \A j \in 0..k : IsPoly(Cached(i, j)) => sqnorm(W(i), Cached(i, j)) # Num(RZero)

\* C1: polynomials of different degrees that orthopoly has produced for one
\* moment function with non-zero norms are orthogonal: their inner product
\* is exactly 0.
C1_Orthogonality ==
  \A i \in Instances : \A n \in Keys, m \in Keys :
    (n < m /\ IsPoly(Cached(i, n)) /\ IsPoly(Cached(i, m)) /\ NormsNonZero(i, m - 1))
      => /\ inner(W(i), Cached(i, n), Cached(i, m)) = Num(RZero)
         /\ inner(W(i), Cached(i, m), Cached(i, n)) = Num(RZero)

C1_Witness ==
  \E i \in Instances :
    /\ W(i).name = "legendre01"
    /\ IsPoly(Cached(i, MaxDeg)) /\ IsPoly(Cached(i, MaxDeg - 1))
    /\ NormsNonZero(i, MaxDeg)

\* the expression e is a polynomial of degree n with leading coefficient 1
Monic(e, n) == IsPoly(e) /\ Len(e.c) = n + 1 /\ e.c[n + 1] = ROne

\* C2: whatever orthopoly(n) returns, and every entry of the cache, is a
\* polynomial of degree exactly n with leading coefficient exactly 1.
C2_Monicity ==
  /\ \A i \in Instances : \A n \in Keys :
       Cached(i, n) # None => Monic(Cached(i, n), n)
  /\ (last.op = "orthopoly" /\ ~last.raised) => Monic(last.val, last.n)

\* a divided by b for rationals, b not zero
Quot(a, b) == RMul(a, RInv(b))

\* (x - a)*p1 - b*p2
ThreeTerm(a, b, p1, p2) == PSub(PMul(PSub(PX, PConst(a)), p1), PScale(b, p2))

\* the quotients a and b of the recurrence are defined for degree n
\* of instance i: p_{n-1} and p_{n-2} are polynomials of non-zero norm
QuotientsDefined(i, n) ==
  /\ IsPoly(Cached(i, n - 1)) /\ IsPoly(Cached(i, n - 2))
  /\ sqnorm(W(i), Cached(i, n - 1)) # Num(RZero)
  /\ sqnorm(W(i), Cached(i, n - 2)) # Num(RZero)

\* C3: orthopoly(0) = 1, orthopoly(1) = x - mu(1)/mu(0), and for n >= 2
\* orthopoly(n) = (x - a)*p_{n-1} - b*p_{n-2} with
\* a = inner(x*p_{n-1}, p_{n-1})/inner(p_{n-1}, p_{n-1}) and
\* b = inner(p_{n-1}, p_{n-1})/inner(p_{n-2}, p_{n-2}), the p's being what
\* orthopoly produced for those degrees; where a quotient has a zero
\* divisor or a non-finite operand the entry is the non-finite value of that
\* expression; the value returned is the entry.
C3_ThreeTermRecurrence ==
  /\ \A i \in Instances : \A n \in Keys :
       Cached(i, n) # None =>
         IF n = 0 THEN Cached(i, n) = Poly(POne)
         ELSE IF n = 1
         THEN IF moment(W(i), 0) # RZero
              THEN Cached(i, n) =
                     Poly(PSub(PX, PConst(Quot(moment(W(i), 1), moment(W(i), 0)))))
              ELSE Cached(i, n) = NonFinite
         ELSE IF QuotientsDefined(i, n)
              THEN Cached(i, n) =
                     Poly(ThreeTerm(
                       Quot(inner(W(i), TimesX(Cached(i, n - 1)), Cached(i, n - 1)).v,
                            inner(W(i), Cached(i, n - 1), Cached(i, n - 1)).v),
                       Quot(inner(W(i), Cached(i, n - 1), Cached(i, n - 1)).v,
                            inner(W(i), Cached(i, n - 2), Cached(i, n - 2)).v),
                       Cached(i, n - 1).c, Cached(i, n - 2).c))
              ELSE Cached(i, n) = NonFinite
  /\ (last.op = "orthopoly" /\ ~last.raised) => last.val = Cached(last.inst, last.n)

C3_Witness ==
  /\ last.op = "orthopoly" /\ ~last.raised /\ ~last.hit /\ last.n = MaxDeg
  /\ W(last.inst).name = "laguerre"
  /\ IsPoly(last.val)

\* x^n
XPow(n) == Tuple([k \in 1..(n + 1) |-> IF k = n + 1 THEN ROne ELSE RZero])

\* what orthopoly(k) returns on instance i in the current state
P(i, k) == orthopoly(W(i), CacheOf(i), k).val

\* x^n minus its projections on p_k, .., p_{n-1}
RECURSIVE GramSchmidtFrom(_, _, _)
GramSchmidtFrom(i, n, k) ==
  IF k >= n THEN XPow(n)
  ELSE PSub(GramSchmidtFrom(i, n, k + 1),
            PScale(Quot(inner(W(i), Poly(XPow(n)), P(i, k)).v,
                        inner(W(i), P(i, k), P(i, k)).v),
                   P(i, k).c))

\* C4: for mu(k) = 1/(k+1) and mu(k) = k! and every n <= 5, the polynomial
\* orthopoly(n) produced equals x^n orthogonalized by Gram-Schmidt against
\* orthopoly(0), .., orthopoly(n-1) under the same inner product.
C4_GramSchmidt ==
  \A i \in Instances : \A n \in GSDegrees :
    Cached(i, n) # None =>
      /\ IsPoly(Cached(i, n))
      /\ Cached(i, n).c = GramSchmidtFrom(i, n, 0)

C4_Witness ==
  /\ W(1).name = "legendre01" /\ W(2).name = "laguerre"
  /\ \A i \in Instances : IsPoly(Cached(i, 5)) /\ Len(Cached(i, 5).c) = 6

\* C5: inner(p1, p2) is the sum over i of c_i*mu(i), c_i the coefficient of
\* x^i in the product p1*p2 (every pair of terms a_j x^j, b_k x^k of the
\* factors contributes a_j*b_k*mu(j+k)), and sqnorm(p) is inner(p, p).
C5_InnerContractsMoments ==
  /\ (last.op = "inner" /\ IsPoly(last.args[1]) /\ IsPoly(last.args[2]))
       => last.num = Num(Contract(W(last.inst), last.args[1].c, last.args[2].c))
  /\ (last.op = "sqnorm" /\ IsPoly(last.args[1]))
       => last.num = Num(Contract(W(last.inst), last.args[1].c, last.args[1].c))

C5_Witness ==
  /\ last.op = "inner"
  /\ last.args = <<Poly(<<RInt(-1), <<1, 2>>>>), Poly(<<RZero, RInt(-1)>>)>>
  /\ W(last.inst).name = "laguerre"
  /\ last.num = Num(RZero)

\* C6: once the cache of an instance holds an entry for a degree, no call,
\* successful or failing, removes the entry or replaces it by another value.
C6_AppendOnly ==
  [][\A r \in Instances : \A n \in Keys :
       heap[r][n] # None => heap'[r][n] = heap[r][n]]_vars

C6_Witness ==
  /\ last.op = "orthopoly" /\ last.raised
  /\ Cached(last.inst, 0) # None

\* C7: a call of orthopoly on one instance leaves the cache of the other
\* instance unchanged, and on instances with different moment functions the
\* polynomial returned is the one of the instance's own moment function (what
\* a new instance of that moment function returns), also when the other
\* instance holds an entry of the same degree.
C7_CacheIsolation ==
  /\ [][\A j \in Instances :
          j # last'.inst => heap'[obj[j].cache] = heap[obj[j].cache]]_vars
  /\ [](\A i \in Instances :
          (last.op = "orthopoly" /\ last.inst = i /\ ~last.raised
             /\ W(1) # W(2))
            => last.val = orthopoly(W(i), EmptyDict, last.n).val)

C7_Witness ==
  /\ last.op = "orthopoly" /\ ~last.raised /\ ~last.hit /\ last.n = 2
  /\ W(1).name # W(2).name
  /\ \A i \in Instances : IsPoly(Cached(i, 2))
  /\ Cached(1, 2) # Cached(2, 2)

\* C8: orthopoly(n) served from the cache right after the call that computed
\* it returns the identical polynomial, and two instances with the same
\* moment function hold identical polynomials for every degree both computed.
C8_Determinism ==
  /\ [][(last.op = "orthopoly" /\ ~last.raised
           /\ last'.inst = last.inst /\ last'.n = last.n)
          => (last'.hit /\ ~last'.raised /\ last'.val = last.val)]_vars
  /\ [](W(1) = W(2) =>
          \A n \in Keys :
            (Cached(1, n) # None /\ Cached(2, n) # None) => Cached(1, n) = Cached(2, n))

C8_Witness ==
  /\ W(1) = W(2) /\ W(1).name = "legendre01"
  /\ last.op = "orthopoly" /\ last.hit /\ last.n = MaxDeg
  /\ \A i \in Instances : Cached(i, MaxDeg) # None

\* C9: with mu(0) = 0 a call orthopoly(n), n >= 1, raises and no polynomial
\* of degree >= 1 is cached.
C9_ZeroMassRaises ==
  (last.op = "orthopoly" /\ last.n >= 1 /\ moment(W(last.inst), 0) = RZero)
    => /\ last.raised
       /\ \A n \in Keys : n >= 1 => Cached(last.inst, n) = None

\* C10: for n >= 2, when the squared norm of p_{n-1} or of p_{n-2} is zero,
\* orthopoly(n) raises and nothing is stored for degree n.
C10_ZeroNormRaises ==
  (/\ last.op = "orthopoly" /\ last.n >= 2 /\ ~last.hit
   /\ IsPoly(Cached(last.inst, last.n - 1)) /\ IsPoly(Cached(last.inst, last.n - 2))
   /\ \/ sqnorm(W(last.inst), Cached(last.inst, last.n - 1)) = Num(RZero)
      \/ sqnorm(W(last.inst), Cached(last.inst, last.n - 2)) = Num(RZero))
    => /\ last.raised
       /\ Cached(last.inst, last.n) = None

\* C11: orthopoly(n) with n < 0 fails at once: it raises without entering
\* orthopoly for any further degree, without evaluating the moment function
\* and without changing the cache.
C11_NegativeDegreeFailsAtOnce ==
  [][(last'.op = "orthopoly" /\ last'.n < 0)
       => /\ last'.raised
          /\ last'.tr.entered = {last'.n}
          /\ last'.tr.moments = {}
          /\ heap' = heap]_vars

\* the degree of the product of the polynomials a and b, 0 for the zero
\* polynomial
ProductDegree(a, b) == IF Len(a) = 0 \/ Len(b) = 0 THEN 0 ELSE Len(a) + Len(b) - 2

\* mu raises at an index between 0 and the degree of a*b
RaisesWithin(w, a, b) == \E k \in 0..ProductDegree(a, b) : Undefined(w, k)

\* C12: when the moment function raises at an index i, 0 <= i <= deg(p1*p2),
\* inner(p1, p2) and sqnorm raise, also when the coefficient of x^i in the
\* product is zero, and an orthopoly(n) call, n >= 2, whose inner products
\* of p_{n-1} need such an index raises and stores nothing for n.
C12_MomentErrorsPropagate ==
  /\ (last.op = "inner" /\ RaisesWithin(W(last.inst), last.args[1].c, last.args[2].c))
       => last.raised /\ last.num = Raise
  /\ (last.op = "sqnorm" /\ RaisesWithin(W(last.inst), last.args[1].c, last.args[1].c))
       => last.raised /\ last.num = Raise
  /\ (/\ last.op = "orthopoly" /\ last.n >= 2 /\ ~last.hit
      /\ IsPoly(Cached(last.inst, last.n - 1)) /\ IsPoly(Cached(last.inst, last.n - 2))
      /\ RaisesWithin(W(last.inst), Cached(last.inst, last.n - 1).c,
                      TimesX(Cached(last.inst, last.n - 1)).c))
       => last.raised /\ Cached(last.inst, last.n) = None

\* inner(x, x^2) under a moment function that raises at index 2 only, where
\* the coefficient of x^2 in the product x^3 is zero
C12_Witness ==
  /\ last.op = "inner" /\ last.raised
  /\ W(last.inst).name = "gap2"
  /\ last.args = <<Poly(PX), Poly(<<RZero, RZero, ROne>>)>>

\* C13 as stated: when a call of orthopoly fails, the cache of the instance
\* (and with it the whole heap) is exactly what it was before the call.
C13_FailureLeavesCacheAsBefore ==
  [][(last'.op = "orthopoly" /\ last'.raised) => heap' = heap]_vars

\* C13 amended: when orthopoly(n) fails, the cache holds no entry for n,
\* every entry it held before the call is unchanged, and the entries
\* the call added are for degrees below n.
C13_FailureStoresLowerDegreesOnly ==
  [][(last'.op = "orthopoly" /\ last'.raised)
       => /\ \A r \in Instances : r # obj[last'.inst].cache => heap'[r] = heap[r]
          /\ \A k \in Keys :
               /\ heap[obj[last'.inst].cache][k] # None
                    => heap'[obj[last'.inst].cache][k] = heap[obj[last'.inst].cache][k]
               /\ heap'[obj[last'.inst].cache][k] # heap[obj[last'.inst].cache][k]
                    => k < last'.n
               /\ k = last'.n => heap'[obj[last'.inst].cache][k] = None]_vars

\* orthopoly(2) failed in sqnorm(p_1) after it had stored p_0 and p_1
C13_Witness ==
  /\ last.op = "orthopoly" /\ last.raised /\ last.n = 2
  /\ W(last.inst).name = "gap2"
  /\ last.tr.stored = {0, 1}
  /\ IsPoly(Cached(last.inst, 0)) /\ IsPoly(Cached(last.inst, 1))
  /\ Cached(last.inst, 2) = None

\* C14: over any sequence of orthopoly calls on one instance, the squared
\* norm of each polynomial p_k is computed at most once.
C14_NormsComputedOnce ==
  \A i \in Instances : \A k \in Keys : sqnorms[i][k] <= 1

\* C15: orthopoly(0) returns the constant 1 for every moment function
\* without evaluating it at any index, also when it raises or mu(0) = 0,
\* and an orthopoly(1) that computes p_1 evaluates the moment function at
\* index 1 and, unless that raised, index 0, and at no other index.
C15_LowDegreesUseFewMoments ==
  /\ (last.op = "orthopoly" /\ last.n = 0)
       => /\ ~last.raised /\ last.val = Poly(POne)
          /\ last.tr.moments = {}
  /\ (last.op = "orthopoly" /\ last.n = 1 /\ ~last.hit)
       => /\ last.tr.moments \subseteq {0, 1}
          /\ 1 \in last.tr.moments
          /\ ~Undefined(W(last.inst), 1) => 0 \in last.tr.moments

\* orthopoly(0) on an instance whose moment function raises at every index
C15_Witness ==
  /\ last.op = "orthopoly" /\ last.n = 0 /\ ~last.hit
  /\ W(last.inst).name = "undefined"
  /\ last.val = Poly(POne)

\* what orthopoly(n) does on a new instance with the moment function of
\* instance i
Fresh(i, n) == orthopoly(W(i), EmptyDict, n)

\* the dict d1 holds the entries of d0 and, where d0 has none, those of f
Adds(d0, d1, f) ==
  \A k \in Keys : d1[k] = IF d0[k] # None THEN d0[k] ELSE f[k]

\* C27: what a call orthopoly(n) returns or raises is what it returns or
\* raises on a new instance, whatever calls the instance has served before;
\* every polynomial a call stores is the one a new instance computes for
\* its degree; and a call served from the dict leaves every dict as it is,
\* while any other call adds to the dict exactly the entries it stores on
\* a new instance that the dict did not hold, so that the final dict
\* depends on the set of the degrees requested and not on their order.
C27_CallOrderIndependence ==
  /\ [](last.op = "orthopoly" =>
          \A f \in {Fresh(last.inst, last.n)} :
            last.raised = f.raised /\ last.val = f.val)
  /\ [](last.op = "orthopoly" =>
          \A k \in last.tr.stored :
            Cached(last.inst, k) = Fresh(last.inst, k).dict[k])
  /\ [][last'.op = "orthopoly" =>
          IF last'.hit THEN heap' = heap
          ELSE \A f \in {Fresh(last'.inst, last'.n).dict} :
                 Adds(CacheOf(last'.inst), heap'[obj[last'.inst].cache], f)]_vars

C27_Witness ==
  /\ last.op = "orthopoly" /\ ~last.raised /\ ~last.hit /\ last.n = MaxDeg
  /\ last.tr.stored = {MaxDeg}
  /\ IsPoly(last.val) /\ last.val = Fresh(last.inst, MaxDeg).val
  /\ Fresh(last.inst, MaxDeg).tr.stored = 0..MaxDeg

\* ------------------------------------------------------------------------
\* Numbers of the Gauss rules
\* ------------------------------------------------------------------------
\* The entries of the Jacobi matrices are rationals and square roots of
\* rationals, and the eigenvalues of the matrices of the model are quadratic
\* surds.  A surd [a, b, r] is the number a + b*sqrt(r) with a, b, r
\* rational, r >= 0, and b = r = 0 for a rational number.  A root
\* [sgn, sq] is the number sgn*sqrt(sq), sgn in {-1, 0, 1}.
RSign(a) == IF a[1] > 0 THEN 1 ELSE IF a[1] < 0 THEN -1 ELSE 0
RLess(a, b) == a[1] * b[2] < b[1] * a[2]

\* the integer square root of n when n is a perfect square, else -1
ISqrt(n) == IF \E k \in 0..n : k * k = n THEN CHOOSE k \in 0..n : k * k = n ELSE -1

Surd(a, b, r) ==
  IF b = RZero \/ r = RZero THEN [a |-> a, b |-> RZero, r |-> RZero]
  ELSE IF ISqrt(r[1]) >= 0 /\ ISqrt(r[2]) >= 0
  THEN [a |-> RAdd(a, RMul(b, <<ISqrt(r[1]), ISqrt(r[2])>>)), b |-> RZero, r |-> RZero]
  ELSE [a |-> a, b |-> b, r |-> r]

SRat(q) == [a |-> q, b |-> RZero, r |-> RZero]
SZero == SRat(RZero)
SOne == SRat(ROne)

\* the radicand of an operation on x and y
Rad(x, y) == IF x.b = RZero THEN y.r ELSE x.r

SAdd(x, y) == Surd(RAdd(x.a, y.a), RAdd(x.b, y.b), Rad(x, y))
SNeg(x) == [a |-> RNeg(x.a), b |-> RNeg(x.b), r |-> x.r]
SSub(x, y) == SAdd(x, SNeg(y))
SMul(x, y) ==
  Surd(RAdd(RMul(x.a, y.a), RMul(RMul(x.b, y.b), Rad(x, y))),
       RAdd(RMul(x.a, y.b), RMul(x.b, y.a)), Rad(x, y))

\* a^2 - b^2*r, the product of x and its conjugate
SNormOf(x) == RSub(RMul(x.a, x.a), RMul(RMul(x.b, x.b), x.r))

\* 1/x for x # 0
SInv(x) ==
  Surd(RMul(x.a, RInv(SNormOf(x))), RNeg(RMul(x.b, RInv(SNormOf(x)))), x.r)

\* the sign of a + b*sqrt(r)
SSign(x) ==
  IF RSign(x.b) = 0 THEN RSign(x.a)
  ELSE IF RSign(x.a) = 0 \/ RSign(x.a) = RSign(x.b) THEN RSign(x.b)
  ELSE RSign(x.a) * RSign(SNormOf(x))

SLess(x, y) == SSign(SSub(x, y)) < 0

RECURSIVE SPow(_, _)
SPow(x, k) == IF k = 0 THEN SOne ELSE SMul(x, SPow(x, k - 1))

\* mp.sqrt(q) for a rational q >= 0
Sqrt(q) == [sgn |-> RSign(q), sq |-> q]

\* c*t for a rational c and a root t
RootScale(c, t) == [sgn |-> RSign(c) * t.sgn, sq |-> RMul(RMul(c, c), t.sq)]

\* the rational q as a root
RootOf(q) == [sgn |-> RSign(q), sq |-> RMul(q, q)]

\* ------------------------------------------------------------------------
\* The Jacobi matrices of golub_welsch.py and mpmath_golub_welsch.py
\* ------------------------------------------------------------------------
\* what the lines before the call of tridiag_eigen leave: the exception
\* they raise, or d, e and z; vec is FALSE when tridiag_eigen is called
\* without z (eigenvalues only)
Built(d, e, z) ==
  [error |-> "", d |-> Tuple([k \in 1..Len(d) |-> SRat(d[k])]), e |-> e,
   z |-> z, vec |-> TRUE]
BuiltLists(d, e) ==
  [error |-> "", d |-> Tuple([k \in 1..Len(d) |-> SRat(d[k])]), e |-> e,
   z |-> <<>>, vec |-> FALSE]
Fails(error) == [error |-> error, d |-> <<>>, e |-> <<>>, z |-> <<>>, vec |-> FALSE]

\* mp.matrix(v) of a list v: the constructor reads v[0] to tell a vector
\* from a nested list, which raises IndexError for the empty list
matrix(v, rest) == IF Len(v) = 0 THEN Fails("IndexError") ELSE rest

\* 1/t for a root t # 0
RootInv(t) == [sgn |-> t.sgn, sq |-> RInv(t.sq)]

\* a/b for rationals, b # 0
RDiv(a, b) == RMul(a, RInv(b))

\* mp.eye(n)[0,:]: the first row of the identity matrix
EyeRow(n) ==
  Tuple([k \in 1..n |-> IF k = 1 THEN [sgn |-> 1, sq |-> SOne]
                                  ELSE [sgn |-> 0, sq |-> SZero]])

Zeros(n) == Tuple([k \in 1..n |-> RZero])

\* e.append(mp.mpf('0.0'))
Append0(e) == Append(Tuple(e), RootOf(RZero))

\* golub_welsch.gauss_hermite, before tridiag_eigen
hermite(n) ==
  matrix(Zeros(n),
         Built(Zeros(n), Append0([k \in 1..(n - 1) |-> Sqrt(RNorm(k, 2))]),
               EyeRow(n)))

\* mp.arange(1, 2*n, 2): 1, 3, .., 2n - 1
OddsTo(n) == Tuple([k \in 1..n |-> RInt(2 * k - 1)])

\* mp.arange(-1, -n-1, -1): -1, -2, .., -n
NegsTo(n) == Tuple([k \in 1..n |-> RootOf(RInt(-k))])

\* golub_welsch.gauss_laguerre, before tridiag_eigen
laguerre(n) == matrix(OddsTo(n), Built(OddsTo(n), NegsTo(n), EyeRow(n)))

\* [i + alpha for i in mp.arange(1, 2*n, 2)]
OddsPlus(n, alpha) == Tuple([k \in 1..n |-> RAdd(RInt(2 * k - 1), alpha)])

\* the off-diagonal entries sqrt(k*(k + alpha))
genlaguerre_e_positive(n, alpha) ==
  [k \in 1..(n - 1) |-> Sqrt(RMul(RInt(k), RAdd(RInt(k), alpha)))]

\* [-mp.sqrt(k*(k + alpha)) for k in mp.arange(1, n)]
genlaguerre_e(n, alpha) ==
  [k \in 1..(n - 1) |->
     RootScale(RInt(-1), Sqrt(RMul(RInt(k), RAdd(RInt(k), alpha))))]

\* golub_welsch.gauss_genlaguerre, before tridiag_eigen
genlaguerre(n, alpha) ==
  matrix(OddsPlus(n, alpha),
         Built(OddsPlus(n, alpha), Append0(genlaguerre_e(n, alpha)), EyeRow(n)))

\* the off-diagonal entries k/sqrt(4*k**2 + 1)
legendre_e_plus(n) ==
  [k \in 1..(n - 1) |-> RootScale(RInt(k), RootInv(Sqrt(RInt(4 * k * k + 1))))]

\* [k/mp.sqrt(4*k**2 - 1) for k in mp.arange(1, n)]
legendre_e(n) ==
  [k \in 1..(n - 1) |-> RootScale(RInt(k), RootInv(Sqrt(RInt(4 * k * k - 1))))]

\* golub_welsch.gauss_legendre, before tridiag_eigen
legendre(n) == matrix(Zeros(n), Built(Zeros(n), Append0(legendre_e(n)), EyeRow(n)))

\* the divisor (2*k + 2*alpha - 1)**2 - 1 of gauss_gegenbauer
gegenbauer_den(k, alpha) ==
  RSub(RMul(RAdd(RInt(2 * k - 1), RMul(RInt(2), alpha)),
            RAdd(RInt(2 * k - 1), RMul(RInt(2), alpha))), ROne)

\* [mp.sqrt(k*(k + 2*alpha - 1)/((2*k + 2*alpha - 1)**2 - 1)) ...]
gegenbauer_e(n, alpha) ==
  [k \in 1..(n - 1) |->
     Sqrt(RDiv(RMul(RInt(k), RAdd(RInt(k - 1), RMul(RInt(2), alpha))),
               gegenbauer_den(k, alpha)))]

\* golub_welsch.gauss_gegenbauer, before tridiag_eigen; a zero divisor
\* raises ZeroDivisionError
gegenbauer(n, alpha) ==
  matrix(Zeros(n),
         IF \E k \in 1..(n - 1) : gegenbauer_den(k, alpha) = RZero
         THEN Fails("ZeroDivisionError")
         ELSE Built(Zeros(n), Append0(gegenbauer_e(n, alpha)), EyeRow(n)))

\* 2*k + alpha + beta
jacobi_s(k, alpha, beta) == RAdd(RInt(2 * k), RAdd(alpha, beta))

\* (beta**2 - alpha**2)/(2*k + alpha + beta)/(2*k + alpha + beta - 2)
jacobi_d(n, alpha, beta) ==
  Tuple([k \in 1..n |->
     RDiv(RDiv(RSub(RMul(beta, beta), RMul(alpha, alpha)), jacobi_s(k, alpha, beta)),
          RSub(jacobi_s(k, alpha, beta), RInt(2)))])

\* the divisor (2*k + alpha + beta)**2 - 1
jacobi_den(k, alpha, beta) ==
  RSub(RMul(jacobi_s(k, alpha, beta), jacobi_s(k, alpha, beta)), ROne)

\* k*(k + alpha)*(k + beta)*(k + alpha + beta)/((2*k + alpha + beta)**2 - 1)
jacobi_x(k, alpha, beta) ==
  RDiv(RMul(RMul(RInt(k), RAdd(RInt(k), alpha)),
            RMul(RAdd(RInt(k), beta), RAdd(RInt(k), RAdd(alpha, beta)))),
       jacobi_den(k, alpha, beta))

\* 2/(2*k + alpha + beta)*mp.sqrt(x)
jacobi_e(n, alpha, beta) ==
  [k \in 1..(n - 1) |->
     RootScale(RDiv(RInt(2), jacobi_s(k, alpha, beta)), Sqrt(jacobi_x(k, alpha, beta)))]

\* golub_welsch.gauss_jacobi, before tridiag_eigen; the list of d is built
\* before mp.matrix is called, and a zero divisor raises ZeroDivisionError
jacobi(n, alpha, beta) ==
  IF \E k \in 1..n : \/ jacobi_s(k, alpha, beta) = RZero
                      \/ jacobi_s(k, alpha, beta) = RInt(2)
  THEN Fails("ZeroDivisionError")
  ELSE matrix(jacobi_d(n, alpha, beta),
         IF \E k \in 1..(n - 1) : \/ jacobi_den(k, alpha, beta) = RZero
                                   \/ jacobi_s(k, alpha, beta) = RZero
         THEN Fails("ZeroDivisionError")
         ELSE Built(jacobi_d(n, alpha, beta), Append0(jacobi_e(n, alpha, beta)),
                    EyeRow(n)))

\* mpmath_golub_welsch.gauss_laguerre_nodes, before tridiag_eigen: d and e
\* are lists
laguerre_nodes(n) == BuiltLists(OddsTo(n), NegsTo(n))

\* mpmath_golub_welsch.gauss_genlaguerre, before tridiag_eigen
genlaguerre_nodes(n, alpha) ==
  BuiltLists(OddsPlus(n, alpha), Append0(genlaguerre_e(n, alpha)))

\* ------------------------------------------------------------------------
\* tridiag_eigen: the eigenvalues of the Jacobi matrix and the first
\* components of its normalized eigenvectors
\* ------------------------------------------------------------------------
\* off-diagonal squares that depend on the last entry of e
SquaresWithLast(e, n) == Tuple([k \in 1..(n - 1) |-> RAdd(e[k].sq, e[n].sq)])

\* the squares of the off-diagonal entries e[1..n-1]; tridiag_eigen
\* overwrites the entry e[n] with 0 before it reads it
Squares(e, n) == Tuple([k \in 1..(n - 1) |-> e[k].sq])

\* the eigenvalues in ascending order, for n <= 2 and for n = 3 with a
\* constant diagonal: d1; m -+ sqrt(h^2 + e1^2) with m = (d1 + d2)/2 and
\* h = (d1 - d2)/2; c, c -+ sqrt(e1^2 + e2^2)
Eigenvalues(d, e2) ==
  CASE Len(d) = 0 -> <<>>
    [] Len(d) = 1 -> <<d[1]>>
    [] Len(d) = 2 ->
         << Surd(RMul(<<1, 2>>, RAdd(d[1].a, d[2].a)), RInt(-1),
                 RAdd(RMul(RMul(<<1, 2>>, RSub(d[1].a, d[2].a)),
                           RMul(<<1, 2>>, RSub(d[1].a, d[2].a))), e2[1])),
            Surd(RMul(<<1, 2>>, RAdd(d[1].a, d[2].a)), ROne,
                 RAdd(RMul(RMul(<<1, 2>>, RSub(d[1].a, d[2].a)),
                           RMul(<<1, 2>>, RSub(d[1].a, d[2].a))), e2[1])) >>
    [] Len(d) = 3 ->
         << Surd(d[1].a, RInt(-1), RAdd(e2[1], e2[2])),
            d[1],
            Surd(d[1].a, ROne, RAdd(e2[1], e2[2])) >>

\* the characteristic polynomial of the matrix without its first row and
\* column, at x
Minor(d, e2, x) ==
  CASE Len(d) = 1 -> SOne
    [] Len(d) = 2 -> SSub(x, d[2])
    [] Len(d) = 3 -> SSub(SMul(SSub(x, d[2]), SSub(x, d[3])), SRat(e2[2]))

\* the product of x - ev[j] over the eigenvalues other than ev[i]
RECURSIVE Others(_, _, _, _)
Others(ev, i, j, x) ==
  IF j > Len(ev) THEN SOne
  ELSE IF j = i THEN Others(ev, i, j + 1, x)
  ELSE SMul(SSub(x, ev[j]), Others(ev, i, j + 1, x))

\* the first component of an eigenvector that is not normalized
FirstSquareOfMinor(d, e2, ev, i) == Minor(d, e2, ev[i])

\* the square of the first component of the normalized eigenvector of
\* the eigenvalue ev[i]
FirstSquare(d, e2, ev, i) ==
  SMul(Minor(d, e2, ev[i]), SInv(Others(ev, i, 1, ev[i])))

Perms(n) == {p \in [1..n -> 1..n] : \A i, j \in 1..n : p[i] = p[j] => i = j}
Signs(n) == [1..n -> {-1, 1}]

\* d and the row z when the QL iteration has converged: the eigenvalues in
\* the order perm in which the iteration found them and the first
\* components of the eigenvectors, each with the sign the iteration gave it
Component(sgn, sq) == [sgn |-> IF SSign(sq) = 0 THEN 0 ELSE sgn, sq |-> sq]
Converged(d, e2, ev, perm, signs) ==
  Tuple([i \in 1..Len(d) |->
     [x |-> ev[perm[i]],
      z |-> Component(signs[i], FirstSquare(d, e2, ev, perm[i]))]])

\* the sort that ends tridiag_eigen: for i = 1..n-1 the first smallest of
\* d[i..n] is exchanged with d[i], and the columns of z with it
RECURSIVE MinIndex(_, _, _)
MinIndex(s, k, j) ==
  IF j > Len(s) THEN k
  ELSE IF SLess(s[j].x, s[k].x) THEN MinIndex(s, j, j + 1)
  ELSE MinIndex(s, k, j + 1)

Swap(s, i, k) == [s EXCEPT ![i] = s[k], ![k] = s[i]]

RECURSIVE SortFrom(_, _)
SortFrom(s, i) ==
  IF i >= Len(s) THEN s ELSE SortFrom(Swap(s, i, MinIndex(s, i, i + 1)), i + 1)

\* tridiag_eigen(mp, d, e, z): e[n-1] = 0 raises IndexError when e is
\* empty or shorter than d
Sorted(raw) == [error |-> "", raw |-> raw, pairs |-> SortFrom(raw, 1)]
Decomposed(d, e2, perm, signs) ==
  Sorted(Converged(d, e2, Eigenvalues(d, e2), perm, signs))
tridiag_eigen(b, perm, signs) ==
  IF Len(b.e) = 0 \/ Len(b.e) < Len(b.d)
  THEN [error |-> "IndexError", raw |-> <<>>, pairs |-> <<>>]
  ELSE Decomposed(b.d, Squares(b.e, Len(b.d)), perm, signs)

\* ------------------------------------------------------------------------
\* The Gauss-rule functions
\* ------------------------------------------------------------------------
\* a normalization constant q*sqrt(pi)^p
RECURSIVE gamma(_)
\* mp.gamma(x) for x = 1/2, 1, 3/2, 2, ..
gamma(x) ==
  IF x = ROne THEN [p |-> 0, q |-> ROne]
  ELSE IF x = <<1, 2>> THEN [p |-> 1, q |-> ROne]
  ELSE [gamma(RSub(x, ROne)) EXCEPT !.q = RMul(RSub(x, ROne), @)]

\* mp.beta(a, b) = gamma(a)*gamma(b)/gamma(a + b)
beta(a, b) ==
  [p |-> gamma(a).p + gamma(b).p - gamma(RAdd(a, b)).p,
   q |-> RDiv(RMul(gamma(a).q, gamma(b).q), gamma(RAdd(a, b)).q)]

\* 2**x for an integer x
TwoTo(x) == IF x[1] >= 0 THEN RInt(Pow2(x[1])) ELSE RInv(RInt(Pow2(-x[1])))

\* c*m for a rational c and a constant m
Times(c, m) == [m EXCEPT !.q = RMul(c, @)]

\* mp.sqrt(mp.pi)
hermite_scale == [p |-> 1, q |-> ROne]
laguerre_scale == [p |-> 0, q |-> ROne]
\* mp.gamma(alpha + 1)
genlaguerre_scale(alpha) == gamma(RAdd(alpha, ROne))
legendre_scale == [p |-> 0, q |-> RInt(2)]
\* 2**(2*alpha)*mp.beta(alpha + 1/2, alpha + 1/2)
gegenbauer_scale(alpha) ==
  Times(TwoTo(RMul(RInt(2), alpha)), beta(RAdd(alpha, <<1, 2>>), RAdd(alpha, <<1, 2>>)))
\* 2**(alpha + beta + 1)*mp.beta(alpha + 1, beta + 1)
jacobi_scale(alpha, bet) ==
  Times(TwoTo(RAdd(RAdd(alpha, bet), ROne)), beta(RAdd(alpha, ROne), RAdd(bet, ROne)))

\* scale*z.apply(lambda x: x**2), one entry
Weight(scale, z) == [p |-> scale.p, v |-> SMul(SRat(scale.q), z.sq)]

\* what the call leaves: the exception of the lines before tridiag_eigen
\* or of tridiag_eigen, or d and the scaled squares of z (d alone for the
\* functions of mpmath_golub_welsch.py)
Outcome(fn, n, alpha, bet, b, scale, t) ==
  [fn |-> fn, n |-> n, alpha |-> alpha, beta |-> bet,
   error |-> IF b.error # "" THEN b.error ELSE t.error,
   kind |-> IF b.error # "" \/ t.error # "" THEN "none"
            ELSE IF b.vec THEN "pair" ELSE "list",
   d |-> b.d, e |-> b.e, raw |-> t.raw,
   nodes |-> Tuple([i \in 1..Len(t.pairs) |-> t.pairs[i].x]),
   weights |-> IF b.vec
               THEN Tuple([i \in 1..Len(t.pairs) |-> Weight(scale, t.pairs[i].z)])
               ELSE <<>>,
   l |-> IF b.error # "" \/ t.error # "" \/ n = 0 THEN 0 ELSE n - 1,
   j |-> 0]

\* the orders and the signs the iteration can leave
Orders(b) == Perms(Len(b.d))
SignsOf(b) == IF b.vec THEN Signs(Len(b.d)) ELSE {[i \in 1..Len(b.d) |-> 1]}

\* the call fn(n, alpha, beta) is about to run
Called(fn, n, alpha, bet) ==
  [NoRule EXCEPT !.fn = fn, !.n = n, !.alpha = alpha, !.beta = bet,
                 !.kind = "called"]

Rule(fn, n, alpha, bet, b, scale) ==
  /\ gw = Called(fn, n, alpha, bet)
  /\ \E perm \in Orders(b), signs \in SignsOf(b) :
       gw' = Outcome(fn, n, alpha, bet, b, scale, tridiag_eigen(b, perm, signs))
  /\ UNCHANGED <<obj, heap, last, polyRaises, sqnorms, iv, run>>

\* the sizes and parameters of the calls: the eigenvalues are quadratic
\* surds for n <= 2, and for n = 3 when the diagonal is constant
Sizes == 0..3
SmallSizes == 0..2
Alphas == {RZero, <<1, 2>>, ROne}
JacobiParams ==
  {<<RZero, RZero>>, <<ROne, RZero>>, <<RZero, ROne>>, <<ROne, ROne>>,
   <<(<<1, 2>>), (<<1, 2>>)>>}
JacobiSizes(ab) == IF ab[1] = ab[2] THEN Sizes ELSE SmallSizes

GaussHermite(n) == Rule("gauss_hermite", n, RZero, RZero, hermite(n), hermite_scale)
GaussLaguerre(n) == Rule("gauss_laguerre", n, RZero, RZero, laguerre(n), laguerre_scale)
GaussGenlaguerre(n, alpha) ==
  Rule("gauss_genlaguerre", n, alpha, RZero, genlaguerre(n, alpha),
       genlaguerre_scale(alpha))
GaussLegendre(n) == Rule("gauss_legendre", n, RZero, RZero, legendre(n), legendre_scale)
GaussGegenbauer(n, alpha) ==
  Rule("gauss_gegenbauer", n, alpha, RZero, gegenbauer(n, alpha),
       gegenbauer_scale(alpha))
GaussJacobi(n, alpha, bet) ==
  Rule("gauss_jacobi", n, alpha, bet, jacobi(n, alpha, bet), jacobi_scale(alpha, bet))
\* the functions of mpmath_golub_welsch.py
GaussLaguerreNodes(n) ==
  Rule("gauss_laguerre_nodes", n, RZero, RZero, laguerre_nodes(n), laguerre_scale)
MpmathGaussGenlaguerre(n, alpha) ==
  Rule("mpmath_golub_welsch.gauss_genlaguerre", n, alpha, RZero,
       genlaguerre_nodes(n, alpha), laguerre_scale)

\* bands whose diagonal is 2*k + alpha - c + 1
J_bandsPlus(n, alpha, c) ==
  [error |-> "",
   d |-> Tuple([k \in 1..n |-> SRat(RSub(RAdd(RInt(2 * k + 1), alpha), RInt(c)))]),
   e |-> <<RootOf(RZero)>> \o Tuple(genlaguerre_e(n, alpha)),
   z |-> <<>>, vec |-> TRUE]

\* ray.py: the rows of J_bands.  The first row holds 0 and the
\* off-diagonal entries -sqrt(k*(k + alpha)), k = 1..n-1; the second row
\* holds the diagonal 2*k + alpha - c, k = 1..n
J_bands(n, alpha, c) ==
  [error |-> "",
   d |-> Tuple([k \in 1..n |-> SRat(RSub(RAdd(RInt(2 * k), alpha), RInt(c)))]),
   e |-> <<RootOf(RZero)>> \o Tuple(genlaguerre_e(n, alpha)),
   z |-> <<>>, vec |-> TRUE]

\* linalg.eig_banded(J_bands): the eigenvalues in ascending order and the
\* normalized eigenvectors, each with the sign the library gave it
eig_banded(b, signs) ==
  Decomposed(b.d, Tuple([k \in 1..(Len(b.d) - 1) |-> b.e[k + 1].sq]),
             [i \in 1..Len(b.d) |-> i], signs)

\* nodes *= scale
Scaled(o, scale) ==
  [o EXCEPT !.nodes = Tuple([i \in 1..Len(@) |-> SMul(SRat(scale), @[i])])]

\* ray.gauss_genlaguerre(n, alpha) and ray.gamma(n, alpha, scale); the
\* record of the call holds scale in the place of the second parameter
RayRule(fn, n, alpha, scale, b, factor) ==
  /\ gw = Called(fn, n, alpha, scale)
  /\ \E signs \in Signs(n) :
       gw' = Scaled(Outcome(fn, n, alpha, scale, b, factor, eig_banded(b, signs)), scale)
  /\ UNCHANGED <<obj, heap, last, polyRaises, sqnorms, iv, run>>

RayGaussGenlaguerre(n, alpha) ==
  RayRule("ray.gauss_genlaguerre", n, alpha, ROne, J_bands(n, alpha, 1),
          genlaguerre_scale(alpha))
RayGamma(n, alpha, scale) ==
  RayRule("ray.gamma", n, alpha, scale, J_bands(n, alpha, 2), laguerre_scale)

RaySizes == 1..2
\* the shape parameters of ray.gamma and its scales
Shapes == {<<1, 2>>, ROne, RInt(2)}
Scales == {ROne, RInt(2)}

InitGW ==
  /\ obj = [i \in Instances |->
             New(i, [name |-> IF i = 1 THEN "legendre01" ELSE "laguerre",
                     numbers |-> "sympy"])]
  /\ heap = [r \in Instances |-> EmptyDict]
  /\ last = NoCall
  /\ polyRaises = FALSE
  /\ sqnorms = NoCounts
  /\ iv = NoComposite
  /\ run = NoRun
  /\ \/ \E n \in Sizes :
          gw \in {Called("gauss_hermite", n, RZero, RZero),
                  Called("gauss_legendre", n, RZero, RZero)}
     \/ \E n \in SmallSizes :
          gw \in {Called("gauss_laguerre", n, RZero, RZero),
                  Called("gauss_laguerre_nodes", n, RZero, RZero)}
     \/ \E n \in SmallSizes, alpha \in Alphas :
          gw \in {Called("gauss_genlaguerre", n, alpha, RZero),
                  Called("mpmath_golub_welsch.gauss_genlaguerre", n, alpha, RZero)}
     \/ \E n \in Sizes, alpha \in Alphas :
          gw = Called("gauss_gegenbauer", n, alpha, RZero)
     \/ \E ab \in JacobiParams : \E n \in JacobiSizes(ab) :
          gw = Called("gauss_jacobi", n, ab[1], ab[2])
     \/ \E n \in RaySizes, alpha \in Alphas :
          gw = Called("ray.gauss_genlaguerre", n, alpha, ROne)
     \/ \E n \in RaySizes, alpha \in Shapes, scale \in Scales :
          gw = Called("ray.gamma", n, alpha, scale)

NextGW ==
  \/ \E n \in Sizes : GaussHermite(n)
  \/ \E n \in SmallSizes : GaussLaguerre(n)
  \/ \E n \in SmallSizes, alpha \in Alphas : GaussGenlaguerre(n, alpha)
  \/ \E n \in Sizes : GaussLegendre(n)
  \/ \E n \in Sizes, alpha \in Alphas : GaussGegenbauer(n, alpha)
  \/ \E ab \in JacobiParams : \E n \in JacobiSizes(ab) : GaussJacobi(n, ab[1], ab[2])
  \/ \E n \in SmallSizes : GaussLaguerreNodes(n)
  \/ \E n \in SmallSizes, alpha \in Alphas : MpmathGaussGenlaguerre(n, alpha)
  \/ \E n \in RaySizes, alpha \in Alphas : RayGaussGenlaguerre(n, alpha)
  \/ \E n \in RaySizes, alpha \in Shapes, scale \in Scales : RayGamma(n, alpha, scale)

SpecGW == InitGW /\ [][NextGW]_vars

\* ------------------------------------------------------------------------
\* The Gauss-rule functions, tridiag_eigen step by step
\* ------------------------------------------------------------------------
\* the lines before tridiag_eigen of the function of the call g
BuiltBy(g) ==
  CASE g.fn = "gauss_hermite" -> hermite(g.n)
    [] g.fn = "gauss_laguerre" -> laguerre(g.n)
    [] g.fn = "gauss_genlaguerre" -> genlaguerre(g.n, g.alpha)
    [] g.fn = "gauss_legendre" -> legendre(g.n)
    [] g.fn = "gauss_gegenbauer" -> gegenbauer(g.n, g.alpha)
    [] g.fn = "gauss_jacobi" -> jacobi(g.n, g.alpha, g.beta)
    [] g.fn = "gauss_laguerre_nodes" -> laguerre_nodes(g.n)
    [] g.fn = "mpmath_golub_welsch.gauss_genlaguerre" -> genlaguerre_nodes(g.n, g.alpha)

\* the factor of the squares of z of the function of the call g
ScaleBy(g) ==
  CASE g.fn = "gauss_hermite" -> hermite_scale
    [] g.fn = "gauss_genlaguerre" -> genlaguerre_scale(g.alpha)
    [] g.fn = "gauss_legendre" -> legendre_scale
    [] g.fn = "gauss_gegenbauer" -> gegenbauer_scale(g.alpha)
    [] g.fn = "gauss_jacobi" -> jacobi_scale(g.alpha, g.beta)
    [] OTHER -> laguerre_scale

Ended(g, b, t) == Outcome(g.fn, g.n, g.alpha, g.beta, b, ScaleBy(g), t)

\* the function runs up to the first test of the iteration, or raises
EnterWith(b) ==
  /\ gw.kind = "called"
  /\ gw' = IF b.error # "" \/ Len(b.e) = 0 \/ Len(b.e) < Len(b.d)
           THEN Ended(gw, b, tridiag_eigen(b, <<>>, <<>>))
           ELSE [gw EXCEPT !.kind = "iterating", !.d = b.d, !.e = b.e]
  /\ UNCHANGED <<obj, heap, last, polyRaises, sqnorms, iv, run>>

Enter == EnterWith(BuiltBy(gw))

\* the test of the iteration finds the off-diagonal entry e[l] negligible
\* and the loop goes on to the next eigenvalue
Deflate ==
  /\ gw.kind = "iterating"
  /\ gw.l < gw.n - 1
  /\ gw' = [gw EXCEPT !.l = @ + 1, !.j = 0]
  /\ UNCHANGED <<obj, heap, last, polyRaises, sqnorms, iv, run>>

\* e[l] is not negligible and j < iterlim: one more QL sweep
Sweep ==
  /\ gw.kind = "iterating"
  /\ gw.l < gw.n - 1
  /\ gw.j < IterLim
  /\ gw' = [gw EXCEPT !.j = @ + 1]
  /\ UNCHANGED <<obj, heap, last, polyRaises, sqnorms, iv, run>>

\* a call that returns d as the iteration left it
NotConvergedPartial(g) ==
  [g EXCEPT !.kind = "list", !.nodes = g.d]

\* what a call leaves that ends with RuntimeError
NotConverged(g) == [g EXCEPT !.kind = "none", !.error = "RuntimeError"]

\* e[l] is not negligible and j >= iterlim: tridiag_eigen raises
\* RuntimeError, which the function does not catch
NoConvergence ==
  /\ gw.kind = "iterating"
  /\ gw.l < gw.n - 1
  /\ gw.j >= IterLim
  /\ gw' = NotConverged(gw)
  /\ UNCHANGED <<obj, heap, last, polyRaises, sqnorms, iv, run>>

\* every off-diagonal entry is deflated: tridiag_eigen sorts d and
\* returns, and the function returns
FinishWith(b) ==
  /\ gw.kind = "iterating"
  /\ gw.l >= gw.n - 1
  /\ \E perm \in Orders(b), signs \in SignsOf(b) :
       gw' = Ended(gw, b, tridiag_eigen(b, perm, signs))
  /\ UNCHANGED <<obj, heap, last, polyRaises, sqnorms, iv, run>>

Finish == FinishWith(BuiltBy(gw))

NextQL == Enter \/ Deflate \/ Sweep \/ NoConvergence \/ Finish

\* Enter is enabled exactly when CanEnter holds and Finish exactly when
\* CanFinish holds
CanEnter == gw.kind = "called"
CanFinish == gw.kind = "iterating" /\ gw.l >= gw.n - 1

\* the function runs on until it returns or raises: weak fairness of the
\* steps of the iteration, and weak fairness of Enter and of Finish written
\* with their enabling conditions
\* a call of a function of golub_welsch.py or mpmath_golub_welsch.py is
\* about to run
InitQL == InitGW /\ gw.fn \notin {"ray.gauss_genlaguerre", "ray.gamma"}

SpecQL ==
  /\ InitQL
  /\ [][NextQL]_vars
  /\ WF_vars(Deflate \/ Sweep \/ NoConvergence)
  /\ ([]<>~CanEnter \/ []<><<Enter>>_vars)
  /\ ([]<>~CanFinish \/ []<><<Finish>>_vars)

\* ------------------------------------------------------------------------
\* orthopoly frame by frame
\* ------------------------------------------------------------------------
Frame(n) == [n |-> n, pc |-> "try", twoprev |-> None, oneprev |-> None]

Top == run.stack[Len(run.stack)]
Below == SubSeq(run.stack, 1, Len(run.stack) - 1)
Dict == CacheOf(1)

\* try: return self._cache[n] finds no key n although the key is there
KeyErrorAbove(d, n) == d[n] = None \/ n >= 2

\* try: return self._cache[n] raises KeyError
KeyError(d, n) == d[n] = None

\* the outermost call has ended
Ended1(n, hit, raised, v) ==
  [op |-> "orthopoly", inst |-> 1, n |-> n, args |-> <<>>, hit |-> hit,
   raised |-> raised, val |-> v, num |-> Raise, tr |-> NoTrace]

\* the frames once the innermost frame has returned v: the frame below
\* takes v for twoprev and calls self.orthopoly(n - 1), or takes it for
\* oneprev and goes on with line 29
Resumed(below, v) ==
  IF below = <<>> THEN <<>>
  ELSE IF below[Len(below)].pc = "twoprev"
  THEN [below EXCEPT ![Len(below)].twoprev = v, ![Len(below)].pc = "oneprev"]
         \o <<Frame(below[Len(below)].n - 1)>>
  ELSE [below EXCEPT ![Len(below)].oneprev = v, ![Len(below)].pc = "step"]

\* the innermost frame returns v with the dict d and the step counts c
ReturnWith(d, c, v, hit) ==
  /\ heap' = [heap EXCEPT ![obj[1].cache] = d]
  /\ run' = [run EXCEPT !.stack = Resumed(Below, v), !.steps = c]
  /\ last' = IF Len(run.stack) = 1 THEN Ended1(Top.n, hit, FALSE, v) ELSE last

\* the innermost frame raises: no frame handles the exception
RaiseWith(c) ==
  /\ run' = [run EXCEPT !.stack = <<>>, !.steps = c, !.failed = TRUE]
  /\ last' = Ended1(run.stack[1].n, FALSE, TRUE, None)
  /\ UNCHANGED heap

EndsWith(r, c) ==
  IF r.raised THEN RaiseWith(c) ELSE ReturnWith(r.dict, c, r.val, FALSE)

\* a caller invokes orthopoly(n) on instance 1
Request(n) ==
  /\ run.stack = <<>>
  /\ run' = [run EXCEPT !.stack = <<Frame(n)>>]
  /\ UNCHANGED <<obj, heap, last, polyRaises, sqnorms, gw, iv>>

\* line 20: the key is in the dict
Hit ==
  /\ run.stack # <<>> /\ Top.pc = "try" /\ ~KeyError(Dict, Top.n)
  /\ ReturnWith(Dict, run.steps, Dict[Top.n], TRUE)
  /\ UNCHANGED <<obj, polyRaises, sqnorms, gw, iv>>

\* lines 22-23 and 36
Zero ==
  /\ run.stack # <<>> /\ Top.pc = "try" /\ KeyError(Dict, Top.n) /\ Top.n = 0
  /\ EndsWith(Zeroth(W(1), Dict), run.steps)
  /\ UNCHANGED <<obj, polyRaises, sqnorms, gw, iv>>

\* lines 24-25 and 36
One ==
  /\ run.stack # <<>> /\ Top.pc = "try" /\ KeyError(Dict, Top.n) /\ Top.n = 1
  /\ EndsWith(First(W(1), Dict), run.steps)
  /\ UNCHANGED <<obj, polyRaises, sqnorms, gw, iv>>

\* line 27: the call self.orthopoly(n - 2)
Recurse ==
  /\ run.stack # <<>> /\ Top.pc = "try" /\ KeyError(Dict, Top.n) /\ Top.n >= 2
  /\ run' = [run EXCEPT !.stack = [@ EXCEPT ![Len(@)].pc = "twoprev"]
                                    \o <<Frame(Top.n - 2)>>]
  /\ UNCHANGED <<obj, heap, last, polyRaises, sqnorms, gw, iv>>

\* lines 29-36
StepOf(r) ==
  /\ EndsWith(r, [run.steps EXCEPT ![Top.n] = IF @ < MaxCount THEN @ + 1 ELSE @])
  /\ sqnorms' = [sqnorms EXCEPT ![1] = Counted(@, r.tr.norms)]
  /\ UNCHANGED <<obj, polyRaises, gw, iv>>
Step ==
  /\ run.stack # <<>> /\ Top.pc = "step"
  /\ StepOf(RecurrenceStep(W(1), Dict, Top.n, Top.twoprev, Top.oneprev))

InitFrames ==
  /\ \E m \in MomentPairs : obj = [i \in Instances |-> New(i, m[i])]
  /\ heap = [r \in Instances |-> EmptyDict]
  /\ last = NoCall
  /\ polyRaises \in BOOLEAN
  /\ sqnorms = NoCounts
  /\ gw = NoRule
  /\ iv = NoComposite
  /\ run = NoRun

NextFrames ==
  (\E n \in Degrees : Request(n)) \/ Hit \/ Zero \/ One \/ Recurse \/ Step

Running == run.stack # <<>>
CanOne == Running /\ Top.pc = "try" /\ KeyError(Dict, Top.n) /\ Top.n = 1
CanStep == Running /\ Top.pc = "step"

\* the interpreter goes on with a call that has not ended: weak fairness
\* of every step of a frame, the one of One and of Step written out with
\* their enabling conditions CanOne and CanStep
SpecFrames ==
  /\ InitFrames /\ [][NextFrames]_vars
  /\ WF_vars(Hit \/ Zero \/ Recurse)
  /\ ([]<>~CanOne \/ []<><<One>>_vars)
  /\ ([]<>~CanStep \/ []<><<Step>>_vars)

\* ------------------------------------------------------------------------
\* The composite rules of interval.py
\* ------------------------------------------------------------------------
\* the largest number of subintervals of a call
MaxM == 3

\* np.linspace(a, b, num), num >= 1
linspace(a, b, num) ==
  Tuple([k \in 1..num |->
     IF num = 1 THEN a
     ELSE RAdd(a, RMul(RInt(k - 1), RMul(RSub(b, a), <<1, num - 1>>)))])

\* np.full(num, v): every position holds v; writes counts the assignments
\* the code has made to the position
full(num, v) == Tuple([k \in 1..num |-> [writes |-> 1, v |-> v]])

\* np.empty(num): every position holds what the memory held
empty(num, junk) == Tuple([k \in 1..num |-> [writes |-> 0, v |-> junk]])

\* the position of the Python index k of w, counted from 1
At(w, k) == IF k < 0 THEN Len(w) + k + 1 ELSE k + 1

Written(x, v) == [writes |-> x.writes + 1, v |-> v]

\* w[a] = w[b] = v
SetEnds(w, a, b, v) ==
  [k \in 1..Len(w) |->
     IF k = At(w, a) /\ k = At(w, b) THEN Written(Written(w[k], v), v)
     ELSE IF k \in {At(w, a), At(w, b)} THEN Written(w[k], v) ELSE w[k]]

\* the slice assignment when the start of the slice is taken for 0
SetSliceFromZero(w, start, stop, step, v) ==
  [k \in 1..Len(w) |->
     IF /\ k - 1 < (IF stop < 0 THEN Len(w) + stop ELSE Min(stop, Len(w)))
        /\ (k - 1) % step = 0
     THEN Written(w[k], v) ELSE w[k]]

\* w[start:stop:step] = v with start >= 0 and step > 0; a negative stop
\* counts from the end
SetSlice(w, start, stop, step, v) ==
  [k \in 1..Len(w) |->
     IF /\ k - 1 >= start
        /\ k - 1 < (IF stop < 0 THEN Len(w) + stop ELSE Min(stop, Len(w)))
        /\ (k - 1 - start) % step = 0
     THEN Written(w[k], v) ELSE w[k]]

\* w[start::step] = v
SetFrom(w, start, step, v) == SetSlice(w, start, Len(w), step, v)

\* the nodes as the model writes numbers with a square root
Nodes(s) == Tuple([k \in 1..Len(s) |-> SRat(s[k])])

\* h = (upper-lower)/m
Width(m, lower, upper) == RMul(RSub(upper, lower), <<1, m>>)
Half(h) == RMul(h, <<1, 2>>)

trapz(m, lower, upper, h) ==
  [nodes |-> Nodes(linspace(lower, upper, m + 1)),
   weights |-> Tuple(SetEnds(full(m + 1, SRat(h)), 0, -1, SRat(Half(h))))]

midpt(m, lower, upper, h) ==
  [nodes |-> Nodes(linspace(RAdd(lower, Half(h)), RSub(upper, Half(h)), m)),
   weights |-> full(m, SRat(h))]

simps(m, lower, upper, h, junk) ==
  [nodes |-> Nodes(linspace(lower, upper, 2 * m + 1)),
   weights |->
     Tuple(SetSlice(
       SetFrom(SetEnds(empty(2 * m + 1, junk), 0, -1, SRat(RMul(h, <<1, 6>>))),
               1, 2, SRat(RMul(<<2, 3>>, h))),
       2, -1, 2, SRat(RMul(h, <<1, 3>>))))]

simps38(m, lower, upper, h, junk) ==
  [nodes |-> Nodes(linspace(lower, upper, 3 * m + 1)),
   weights |->
     Tuple(SetSlice(
       SetFrom(
         SetFrom(SetEnds(empty(3 * m + 1, junk), 0, -1, SRat(RMul(h, <<1, 8>>))),
                 1, 3, SRat(RMul(<<3, 8>>, h))),
         2, 3, SRat(RMul(<<3, 8>>, h))),
       3, -1, 3, SRat(RMul(h, <<1, 4>>))))]

boole(m, lower, upper, h, junk) ==
  [nodes |-> Nodes(linspace(lower, upper, 4 * m + 1)),
   weights |->
     Tuple(SetSlice(
       SetFrom(
         SetFrom(
           SetFrom(SetEnds(empty(4 * m + 1, junk), 0, -1,
                           SRat(RMul(<<7, 90>>, h))),
                   1, 4, SRat(RMul(<<16, 45>>, h))),
           2, 4, SRat(RMul(<<2, 15>>, h))),
         3, 4, SRat(RMul(<<16, 45>>, h))),
       4, -1, 4, SRat(RMul(<<7, 45>>, h))))]

\* leggauss(n) with the default bounds: the nodes of the Gauss-Legendre
\* rule in ascending order and its weights, which sum to 2
GaussLegendrePairs(n, t) ==
  [nodes |-> Tuple([i \in 1..n |-> t.pairs[i].x]),
   weights |-> Tuple([i \in 1..n |-> SMul(SRat(RInt(2)), t.pairs[i].z.sq)])]
leggauss(n) ==
  GaussLegendrePairs(n, Decomposed(legendre(n).d, Squares(legendre(n).e, n),
                                   [i \in 1..n |-> i], [i \in 1..n |-> 1]))

\* np.tile(a, m)[i] and np.repeat(a, n)[i], i counted from 1
tile(a, i) == a[((i - 1) % Len(a)) + 1]
repeat(a, n, i) == a[((i - 1) \div n) + 1]

Tiled(sub, centers, m, n, h) ==
  [nodes |-> Tuple([i \in 1..(Len(sub.nodes) * m) |->
                SAdd(SMul(SRat(Half(h)), tile(sub.nodes, i)),
                     SRat(repeat(centers, n, i)))]),
   weights |-> Tuple([i \in 1..(Len(sub.weights) * m) |->
                [writes |-> 1,
                 v |-> SMul(tile(sub.weights, i), SRat(Half(h)))]])]
composite_gauss(m, n, lower, upper, h) ==
  Tiled(leggauss(n),
        linspace(RAdd(lower, Half(h)), RSub(upper, Half(h)), m), m, n, h)

\* the call fn(m, lower, upper), fn(m, n, lower, upper) for composite_gauss,
\* is about to run
CalledOn(fn, m, n, lower, upper) ==
  [NoComposite EXCEPT !.fn = fn, !.m = m, !.n = n, !.lower = lower,
                      !.upper = upper, !.kind = "called"]

\* the call runs and returns (nodes, weights)
Composite(call, result) ==
  /\ iv = call
  /\ iv' = [call EXCEPT !.kind = "pair", !.nodes = result.nodes,
                        !.weights = result.weights]
  /\ UNCHANGED <<obj, heap, last, polyRaises, sqnorms, gw, run>>

Trapz(m, lower, upper) ==
  Composite(CalledOn("trapz", m, 0, lower, upper),
            trapz(m, lower, upper, Width(m, lower, upper)))
Midpt(m, lower, upper) ==
  Composite(CalledOn("midpt", m, 0, lower, upper),
            midpt(m, lower, upper, Width(m, lower, upper)))
Simps(m, lower, upper, junk) ==
  Composite(CalledOn("simps", m, 0, lower, upper),
            simps(m, lower, upper, Width(m, lower, upper), junk))
Simps38(m, lower, upper, junk) ==
  Composite(CalledOn("simps38", m, 0, lower, upper),
            simps38(m, lower, upper, Width(m, lower, upper), junk))
Boole(m, lower, upper, junk) ==
  Composite(CalledOn("boole", m, 0, lower, upper),
            boole(m, lower, upper, Width(m, lower, upper), junk))
CompositeGauss(m, n, lower, upper) ==
  Composite(CalledOn("composite_gauss", m, n, lower, upper),
            composite_gauss(m, n, lower, upper, Width(m, lower, upper)))

Subintervals == 1..MaxM
GaussPoints == 1..3
Bounds == {<<RInt(-1), ROne>>, <<RZero, ROne>>, <<RZero, RInt(3)>>}
\* what the memory np.empty hands out may hold
Junk == {SZero, SRat(RInt(-7))}
CompositeFns == {"trapz", "midpt", "simps", "simps38", "boole"}

InitIV ==
  /\ obj = [i \in Instances |->
             New(i, [name |-> IF i = 1 THEN "legendre01" ELSE "laguerre",
                     numbers |-> "sympy"])]
  /\ heap = [r \in Instances |-> EmptyDict]
  /\ last = NoCall
  /\ polyRaises = FALSE
  /\ sqnorms = NoCounts
  /\ gw = NoRule
  /\ run = NoRun
  /\ \E m \in Subintervals, b \in Bounds :
       \/ \E fn \in CompositeFns : iv = CalledOn(fn, m, 0, b[1], b[2])
       \/ \E n \in GaussPoints : iv = CalledOn("composite_gauss", m, n, b[1], b[2])

NextIV ==
  \/ \E m \in Subintervals, b \in Bounds : Trapz(m, b[1], b[2])
  \/ \E m \in Subintervals, b \in Bounds : Midpt(m, b[1], b[2])
  \/ \E m \in Subintervals, b \in Bounds, junk \in Junk : Simps(m, b[1], b[2], junk)
  \/ \E m \in Subintervals, b \in Bounds, junk \in Junk : Simps38(m, b[1], b[2], junk)
  \/ \E m \in Subintervals, b \in Bounds, junk \in Junk : Boole(m, b[1], b[2], junk)
  \/ \E m \in Subintervals, n \in GaussPoints, b \in Bounds :
       CompositeGauss(m, n, b[1], b[2])

SpecIV == InitIV /\ [][NextIV]_vars

\* ------------------------------------------------------------------------
\* Properties of the Gauss rules
\* ------------------------------------------------------------------------
GolubWelschFns ==
  {"gauss_hermite", "gauss_laguerre", "gauss_genlaguerre", "gauss_legendre",
   "gauss_gegenbauer", "gauss_jacobi"}
NodeFns == {"gauss_laguerre_nodes", "mpmath_golub_welsch.gauss_genlaguerre"}

\* the call has returned
Returns == gw.kind \in {"pair", "list"}
\* the call has raised
Raises == gw.kind = "none" /\ gw.error # ""

Ascending(nodes) == \A i \in 1..(Len(nodes) - 1) : SLess(nodes[i], nodes[i + 1])

\* the zeroth moment of the family of the call g
Mu0(g) ==
  CASE g.fn = "gauss_hermite" -> [p |-> 1, q |-> ROne]
    [] g.fn = "gauss_laguerre" -> [p |-> 0, q |-> ROne]
    [] g.fn = "gauss_genlaguerre" -> gamma(RAdd(g.alpha, ROne))
    [] g.fn = "gauss_legendre" -> [p |-> 0, q |-> RInt(2)]
    [] g.fn = "gauss_gegenbauer" ->
         Times(TwoTo(RMul(RInt(2), g.alpha)),
               beta(RAdd(g.alpha, <<1, 2>>), RAdd(g.alpha, <<1, 2>>)))
    [] g.fn = "gauss_jacobi" ->
         Times(TwoTo(RAdd(RAdd(g.alpha, g.beta), ROne)),
               beta(RAdd(g.alpha, ROne), RAdd(g.beta, ROne)))
    [] OTHER -> [p |-> 0, q |-> ROne]

\* the weight that belongs to nodes[i]: mu0 times the square of the first
\* component of the normalized eigenvector of the eigenvalue nodes[i]
WeightOfNode(g, i) ==
  [p |-> Mu0(g).p,
   v |-> SMul(SRat(Mu0(g).q), FirstSquare(g.d, Squares(g.e, g.n), g.nodes, i))]

\* C16: for every n >= 1 every gauss_* function of golub_welsch.py and
\* gauss_genlaguerre of mpmath_golub_welsch.py, when it returns, returns two
\* sequences of length n: the nodes in ascending order and the weights,
\* weights[i] being the scaled squared first eigenvector component that
\* belongs to nodes[i].
C16_OutputShape ==
  (/\ gw.fn \in GolubWelschFns \cup {"mpmath_golub_welsch.gauss_genlaguerre"}
   /\ gw.n >= 1
   /\ Returns)
  => /\ gw.kind = "pair"
     /\ Len(gw.nodes) = gw.n
     /\ Len(gw.weights) = gw.n
     /\ Ascending(gw.nodes)
     /\ \A i \in 1..gw.n : gw.weights[i] = WeightOfNode(gw, i)

\* the sum of the values of the weights w[1..k]
RECURSIVE WeightSum(_, _)
WeightSum(w, k) == IF k = 0 THEN SZero ELSE SAdd(WeightSum(w, k - 1), w[k].v)

\* C17: for every n >= 1 the weights a rule of golub_welsch.py returns sum
\* to the zeroth moment of its family, and the squared first eigenvector
\* components sum to 1 before the scaling.
C17_WeightSum ==
  (gw.fn \in GolubWelschFns /\ gw.n >= 1 /\ Returns)
  => /\ \A i \in 1..Len(gw.weights) : gw.weights[i].p = Mu0(gw).p
     /\ WeightSum(gw.weights, Len(gw.weights)) = SRat(Mu0(gw).q)
     /\ WeightSum([i \in 1..Len(gw.raw) |-> [v |-> gw.raw[i].z.sq]], Len(gw.raw)) = SOne

C17_Witness ==
  /\ gw.fn = "gauss_jacobi" /\ gw.n = 2 /\ gw.alpha = ROne /\ gw.beta = RZero
  /\ Returns
  /\ gw.weights[1].v.b # RZero
  /\ gw.weights[1] # gw.weights[2]

\* the k-th moment of x^k on [-1, 1] against the weight 1
LegendreMoment(k) == IF k % 2 = 1 THEN RZero ELSE <<2, k + 1>>

\* the integral of x^k against the weight function of the family of the
\* call g, as q*sqrt(pi)^p
Integral(g, k) ==
  CASE g.fn = "gauss_hermite" ->
         IF k % 2 = 1 THEN [p |-> 1, q |-> RZero] ELSE gamma(<<k + 1, 2>>)
    [] g.fn = "gauss_laguerre" -> gamma(RInt(k + 1))
    [] g.fn = "gauss_genlaguerre" ->
         [gamma(RAdd(RInt(k + 1), g.alpha)) EXCEPT !.p = gamma(RAdd(ROne, g.alpha)).p]
    [] g.fn = "gauss_legendre" -> [p |-> 0, q |-> LegendreMoment(k)]
    [] g.fn = "gauss_gegenbauer" ->
         IF k % 2 = 1 THEN [p |-> Mu0(g).p, q |-> RZero]
         ELSE beta(<<k + 1, 2>>, RAdd(g.alpha, <<1, 2>>))
    [] g.fn = "gauss_jacobi" /\ g.alpha = g.beta ->
         IF k % 2 = 1 THEN [p |-> Mu0(g).p, q |-> RZero]
         ELSE beta(<<k + 1, 2>>, RAdd(g.alpha, ROne))
    [] g.fn = "gauss_jacobi" /\ g.alpha = ROne /\ g.beta = RZero ->
         [p |-> 0, q |-> RSub(LegendreMoment(k), LegendreMoment(k + 1))]
    [] g.fn = "gauss_jacobi" /\ g.alpha = RZero /\ g.beta = ROne ->
         [p |-> 0, q |-> RAdd(LegendreMoment(k), LegendreMoment(k + 1))]

\* the quadrature sum of x^k: the sum of w[i]*x[i]^k for i = 1..m
RECURSIVE PowerSum(_, _, _, _)
PowerSum(x, w, k, m) ==
  IF m = 0 THEN SZero
  ELSE SAdd(PowerSum(x, w, k, m - 1), SMul(w[m].v, SPow(x[m], k)))

QuadratureSum(g, k) == PowerSum(g.nodes, g.weights, k, g.n)

\* C18: the n-node rule a function of golub_welsch.py returns integrates
\* x^k exactly against its weight function for every k <= 2n-1; for
\* gauss_legendre(3) the sums of w_i*x_i^k for k = 0..5 are 2, 0, 2/3, 0,
\* 2/5, 0, and the sum for k = 6 is not the integral 2/7.
C18_GaussExactness ==
  (gw.fn \in GolubWelschFns /\ gw.n >= 1 /\ Returns)
  => /\ \A k \in 0..(2 * gw.n - 1) :
          /\ QuadratureSum(gw, k) = SRat(Integral(gw, k).q)
          /\ Integral(gw, k).q # RZero => gw.weights[1].p = Integral(gw, k).p
     /\ (gw.fn = "gauss_legendre" /\ gw.n = 3)
          => /\ <<QuadratureSum(gw, 0), QuadratureSum(gw, 1), QuadratureSum(gw, 2),
                   QuadratureSum(gw, 3), QuadratureSum(gw, 4), QuadratureSum(gw, 5)>>
                 = <<SRat(RInt(2)), SZero, SRat(<<2, 3>>), SZero, SRat(<<2, 5>>), SZero>>
             /\ QuadratureSum(gw, 6) # SRat(<<2, 7>>)

C18_Witness ==
  /\ gw.fn = "gauss_legendre" /\ gw.n = 3 /\ Returns
  /\ gw.nodes = <<Surd(RZero, RInt(-1), <<3, 5>>), SZero, Surd(RZero, ROne, <<3, 5>>)>>
  /\ gw.raw[1].x = SZero
  /\ QuadratureSum(gw, 6) = SRat(<<6, 25>>)

\* the only diagonal entry of the Jacobi matrix of size 1 of the call g
D0(g) ==
  CASE g.fn \in {"gauss_hermite", "gauss_legendre", "gauss_gegenbauer"} -> RZero
    [] g.fn = "gauss_laguerre" -> ROne
    [] g.fn = "gauss_genlaguerre" -> RAdd(ROne, g.alpha)
    [] g.fn = "gauss_jacobi" ->
         RDiv(RSub(g.beta, g.alpha), RAdd(RAdd(g.alpha, g.beta), RInt(2)))

\* C19: called with n = 1, every rule of golub_welsch.py returns the single
\* node d_0 (0 for Hermite, Legendre and Gegenbauer, 1 for Laguerre, 1+alpha
\* for generalized Laguerre, (beta-alpha)/(alpha+beta+2) for Jacobi) and
\* the single weight mu(0).
C19_SizeOne ==
  (gw.fn \in GolubWelschFns /\ gw.n = 1 /\ gw.kind # "called")
  => /\ gw.kind = "pair"
     /\ gw.nodes = <<SRat(D0(gw))>>
     /\ gw.weights = <<[p |-> Mu0(gw).p, v |-> SRat(Mu0(gw).q)]>>

\* C20: every Gauss-rule function called with n = 0 raises an error and
\* never returns an empty result.
C20_SizeZeroRaises ==
  (gw.fn \in GolubWelschFns \cup NodeFns /\ gw.n = 0 /\ gw.kind # "called")
  => Raises

\* the call has ended
CallEnded == gw.kind \in {"pair", "list", "none"}

\* C21: a Gauss-rule call ends either with all n-1 off-diagonal entries
\* deflated and a complete result, or, when the iteration bound is exceeded
\* for an entry, with RuntimeError and no nodes or weights; no result comes
\* from a partially deflated matrix, and every call ends.
C21_AllOrNothing ==
  /\ [](Returns => /\ gw.l >= gw.n - 1
                   /\ Len(gw.nodes) = gw.n
                   /\ gw.kind = "pair" => Len(gw.weights) = gw.n)
  /\ [](gw.error = "RuntimeError"
          => /\ gw.kind = "none" /\ gw.nodes = <<>> /\ gw.weights = <<>>
             /\ gw.l < gw.n - 1 /\ gw.j >= IterLim)
  /\ [](gw.kind = "iterating" /\ gw.l < gw.n - 1 => gw.nodes = <<>>)
  /\ <>CallEnded

C21_Witness ==
  /\ gw.fn = "gauss_hermite" /\ gw.n = 3
  /\ gw.error = "RuntimeError" /\ gw.l = 1 /\ gw.j = IterLim

\* the Jacobi matrix b with the last entry of e replaced by 0
ZeroLast(b) == [b EXCEPT !.e = [@ EXCEPT ![Len(@)] = RootOf(RZero)]]

\* what the call g returns when tridiag_eigen is handed b
ResultOn(g, b) ==
  Ended(g, b, tridiag_eigen(b, [i \in 1..g.n |-> i], [i \in 1..g.n |-> 1]))

\* C22: every call hands tridiag_eigen d with n entries and e with n
\* entries; the last entry of e (-n in gauss_laguerre and
\* gauss_laguerre_nodes, 0 elsewhere) does not affect the result: the
\* nodes and weights are those of the same call with a last entry of 0.
C22_TrailingEntryIgnored ==
  (gw.fn \in GolubWelschFns \cup NodeFns /\ gw.n >= 1 /\ Returns)
  => /\ Len(gw.d) = gw.n
     /\ Len(gw.e) = gw.n
     /\ gw.e[gw.n] = IF gw.fn \in {"gauss_laguerre", "gauss_laguerre_nodes"}
                      THEN RootOf(RInt(-gw.n)) ELSE RootOf(RZero)
     /\ gw.nodes = ResultOn(gw, ZeroLast(BuiltBy(gw))).nodes
     /\ gw.weights = ResultOn(gw, ZeroLast(BuiltBy(gw))).weights

C22_Witness ==
  /\ gw.fn = "gauss_laguerre" /\ gw.n = 2 /\ Returns
  /\ gw.e[2] = RootOf(RInt(-2))
  /\ gw.nodes = <<Surd(RInt(2), RInt(-1), RInt(2)), Surd(RInt(2), ROne, RInt(2))>>
  /\ gw.raw[1].x = gw.nodes[2]

RayFns == {"ray.gauss_genlaguerre", "ray.gamma"}
LaguerreFns ==
  {"gauss_laguerre", "gauss_genlaguerre"} \cup NodeFns \cup RayFns

\* the k-th off-diagonal entry of the Jacobi matrix of the call g,
\* k = 1..n-1
OffDiagonal(g, k) == IF g.fn \in RayFns THEN g.e[k + 1] ELSE g.e[k]

C24_GenlaguerreClosedForm ==
  (/\ gw.fn \in {"gauss_genlaguerre", "mpmath_golub_welsch.gauss_genlaguerre",
                  "ray.gauss_genlaguerre"}
   /\ gw.n >= 1
   /\ Returns)
  => /\ Len(gw.d) = gw.n
     /\ \A k \in 0..(gw.n - 1) : gw.d[k + 1] = SRat(RAdd(RInt(2 * k + 1), gw.alpha))
     /\ \A k \in 1..(gw.n - 1) :
          /\ OffDiagonal(gw, k).sq = RMul(RInt(k), RAdd(RInt(k), gw.alpha))
          /\ OffDiagonal(gw, k).sgn = -1

C24_Witness ==
  /\ gw.fn = "ray.gauss_genlaguerre" /\ gw.n = 2 /\ gw.alpha = <<1, 2>> /\ Returns
  /\ gw.d = <<SRat(<<3, 2>>), SRat(<<7, 2>>)>>
  /\ OffDiagonal(gw, 1).sq = <<3, 2>>

\* C25: the Jacobi matrix ray.gamma(n, alpha) builds is the one
\* ray.gauss_genlaguerre(n, alpha - 1) builds: diagonal 2k + alpha - 2 and
\* squared off-diagonal k*(k + alpha - 1).
C25_GammaIsShiftedGenlaguerre ==
  (gw.fn = "ray.gamma" /\ Returns)
  => /\ gw.d = J_bands(gw.n, RSub(gw.alpha, ROne), 1).d
     /\ gw.e = J_bands(gw.n, RSub(gw.alpha, ROne), 1).e

\* the call is gauss_jacobi(n, 0, 0) or gauss_gegenbauer(n, 1/2)
LegendreCase(g) ==
  \/ g.fn = "gauss_jacobi" /\ g.alpha = RZero /\ g.beta = RZero
  \/ g.fn = "gauss_gegenbauer" /\ g.alpha = <<1, 2>>

\* C30: for every n >= 1, gauss_jacobi(n, alpha, beta) with alpha, beta > -1
\* and gauss_gegenbauer(n, alpha) with alpha > -1/2 compute d and e without
\* a division by zero; gauss_jacobi(n, 0, 0) and gauss_gegenbauer(n, 1/2)
\* build the Jacobi matrix of gauss_legendre(n) and the constant 2.
C30_CoefficientsDefined ==
  (gw.fn \in {"gauss_jacobi", "gauss_gegenbauer"} /\ gw.n >= 1 /\ gw.kind # "called")
  => /\ gw.error # "ZeroDivisionError"
     /\ LegendreCase(gw)
          => /\ gw.d = legendre(gw.n).d
             /\ gw.e = legendre(gw.n).e
             /\ Mu0(gw) = [p |-> 0, q |-> RInt(2)]
             /\ WeightSum(gw.weights, gw.n) = SRat(RInt(2))

\* ------------------------------------------------------------------------
\* Properties of the composite rules
\* ------------------------------------------------------------------------
\* the number of points the documentation of the function states
Points(g) ==
  CASE g.fn = "trapz" -> g.m + 1
    [] g.fn = "midpt" -> g.m
    [] g.fn = "simps" -> 2 * g.m + 1
    [] g.fn = "simps38" -> 3 * g.m + 1
    [] g.fn = "boole" -> 4 * g.m + 1
    [] g.fn = "composite_gauss" -> g.n * g.m

EmptyBased == {"simps", "simps38", "boole"}

\* C26: a composite rule called with m >= 1 returns as many nodes as its
\* documentation states and as many weights as nodes, every position of
\* the weights has been assigned, and the slices that fill an array made
\* by np.empty assign every position exactly once
C26_PointCounts ==
  iv.kind = "pair" =>
    /\ Len(iv.nodes) = Points(iv)
    /\ Len(iv.weights) = Len(iv.nodes)
    /\ \A k \in 1..Len(iv.weights) : iv.weights[k].writes >= 1
    /\ iv.fn \in EmptyBased =>
         \A k \in 1..Len(iv.weights) : iv.weights[k].writes = 1

C26_Witness ==
  /\ iv.kind = "pair" /\ iv.fn = "boole" /\ iv.m = MaxM
  /\ Len(iv.weights) = 4 * MaxM + 1
  /\ iv.weights[5].v = SRat(RMul(<<7, 45>>, Width(MaxM, iv.lower, iv.upper)))
  /\ iv.weights[5].v # SRat(RInt(-7))

\* ------------------------------------------------------------------------
\* Properties of orthopoly frame by frame
\* ------------------------------------------------------------------------
\* C28: every call orthopoly(n), n >= 0, ends; when a call with n >= 2 has
\* returned, the dict holds an entry for every degree 0..n; and as long as
\* no call has raised, lines 29-35 have run at most once for each degree.
C28_TerminatesAndFillsOnce ==
  /\ Running ~> ~Running
  /\ []((~Running /\ last.op = "orthopoly" /\ ~last.raised /\ last.n >= 2)
          => \A k \in 0..last.n : Dict[k] # None)
  /\ [](~run.failed => \A k \in Keys : run.steps[k] <= 1)

C28_Witness ==
  /\ ~Running /\ last.op = "orthopoly" /\ ~last.raised /\ last.hit
  /\ last.n = MaxDeg /\ ~run.failed
  /\ \A k \in 2..MaxDeg : run.steps[k] = 1
  /\ \A k \in 0..MaxDeg : IsPoly(Dict[k])

\* ------------------------------------------------------------------------
\* Properties of the moments a call evaluates
\* ------------------------------------------------------------------------
\* the last call was orthopoly on an instance whose dict was empty: the
\* dict holds what the call stored and nothing else
FreshCall ==
  /\ last.op = "orthopoly" /\ ~last.hit
  /\ {k \in Keys : Cached(last.inst, k) # None} = last.tr.stored

\* C29: a call orthopoly(n), n >= 1, on a new instance evaluates the
\* moment function at indices 0..2n-1 only, and with a moment function
\* mu(k) = 1/(k+1) that raises at every index from some index >= 2n on it
\* returns the polynomial it returns when mu is defined everywhere.
C29_MomentFootprint ==
  (FreshCall /\ last.n >= 1) =>
    /\ last.tr.moments \subseteq 0..(2 * last.n - 1)
    /\ (W(last.inst).name \in CutNames /\ CutOf(W(last.inst).name) >= 2 * last.n)
         => /\ ~last.raised
            /\ last.val = orthopoly([name |-> "legendre01", numbers |-> "sympy"],
                                     EmptyDict, last.n).val

C29_Witness ==
  /\ FreshCall /\ last.n = MaxDeg /\ ~last.raised
  /\ W(last.inst).name \in CutNames /\ CutOf(W(last.inst).name) = 2 * MaxDeg
  /\ last.tr.moments = 0..(2 * MaxDeg - 1)
  /\ IsPoly(last.val)

====
